---------------------------- MODULE Spec2Model ----------------------------
(***************************************************************************)
(* Frame-evolution engine of the generative animator                       *)
(* (src/generative_animator.py): the per-frame loop of generate_animation, *)
(* keyframe resolution, audio modulation, the transforms, colour           *)
(* coherence, the temporal blend, frame interpolation, the schedule parser *)
(* and the Deforum schedule builder; with it the frame generator of the    *)
(* animation engine (src/animation_engine.py), the background task and the *)
(* request handlers of the API, and the download of the model manager      *)
(* (src/model_manager.py).                                                 *)
(*                                                                         *)
(* Python floats are modelled as exact rationals <<n, d>> (d > 0, lowest   *)
(* terms).  Images are modelled as terms recording the operation that      *)
(* produced them and its arguments (<<"init_image">>, <<"blend", a, b, s>>)*)
(* so two images are equal exactly when they were computed the same way;   *)
(* where the arithmetic on pixels matters (blending, frame interpolation,  *)
(* whole-pixel shifts) an image is <<"pixels", row>> and is computed.      *)
(* Python objects that are shared by reference (the keyframes of the       *)
(* configuration) are modelled by their position in config.keyframes.      *)
(***************************************************************************)
EXTENDS Integers, Sequences, FiniteSets, TLC

(***************************************************************************)
(* Bounds of the model.                                                    *)
(***************************************************************************)
MaxFrames == 4

MaxCadence == 3

MaxLayers == 2

MaxIdx == 4

MaxKeys == 3

MaxTokens == 3

MaxSchedFrames == 11
\* frames handed to _interpolate_frames
MaxClip == 3
\* largest config.interpolation_factor
MaxFactor == 3
\* largest total_frames given to create_deforum_animation_schedule
MaxDeforum == 3
\* longest audio feature series
MaxSeries == 3
\* calls of generate_animation on one GenerativeAnimator
MaxCalls == 2
\* images loaded by the animation engine
MaxImages == 4
\* largest total_frames of the animation engine
MaxEngineFrames == 24
\* chunks of a download
MaxChunks == 2
\* images in the project directory of an API run
MaxApiImages == 2
\* longest requested duration of an API run, in seconds
MaxDuration == 2

(***************************************************************************)
(* Exact arithmetic standing for Python float arithmetic.                  *)
(***************************************************************************)
Abs(n) == IF n < 0 THEN -n ELSE n

RECURSIVE GCD(_, _)
GCD(a, b) == IF b = 0 THEN a ELSE GCD(b, a % b)

Norm(n, d) ==
    LET s == IF d < 0 THEN -1 ELSE 1
        g == GCD(Abs(n), Abs(d))
    IN  <<(s * n) \div g, (s * d) \div g>>

R(n) == <<n, 1>>

RAdd(a, b) == Norm(a[1] * b[2] + b[1] * a[2], a[2] * b[2])

RSub(a, b) == Norm(a[1] * b[2] - b[1] * a[2], a[2] * b[2])

RMul(a, b) == Norm(a[1] * b[1], a[2] * b[2])

RDiv(a, b) == Norm(a[1] * b[2], a[2] * b[1])

RLt(a, b) == a[1] * b[2] < b[1] * a[2]

RLe(a, b) == a[1] * b[2] <= b[1] * a[2]

RFloor(a) == a[1] \div a[2]

SetMax(S) == CHOOSE x \in S : \A y \in S : y <= x

SetMin(S) == CHOOSE x \in S : \A y \in S : x <= y

(***************************************************************************)
(* AnimationKeyframe: the dataclass and its defaults.                      *)
(***************************************************************************)
\* faulty variant: the zoom default is 0 instead of the identity 1
AnimationKeyframeZeroZoom(frame, prompt) ==
    [frame |-> frame, prompt |-> prompt, negative_prompt |-> "",
     strength |-> <<3, 4>>, seed |-> -1, zoom |-> R(0), angle |-> R(0),
     translation_x |-> R(0), translation_y |-> R(0), translation_z |-> R(0),
     rotation_3d_x |-> R(0), rotation_3d_y |-> R(0), rotation_3d_z |-> R(0),
     perspective_flip_theta |-> R(0), perspective_flip_phi |-> R(0),
     perspective_flip_gamma |-> R(0),
     noise_schedule |-> "0:(0.02)", color_coherence |-> "Match Frame 0 LAB",
     diffusion_cadence |-> 1, optical_flow_cadence |-> "None"]

AnimationKeyframe(frame, prompt) ==
    [frame |-> frame, prompt |-> prompt, negative_prompt |-> "",
     strength |-> <<3, 4>>, seed |-> -1, zoom |-> R(1), angle |-> R(0),
     translation_x |-> R(0), translation_y |-> R(0), translation_z |-> R(0),
     rotation_3d_x |-> R(0), rotation_3d_y |-> R(0), rotation_3d_z |-> R(0),
     perspective_flip_theta |-> R(0), perspective_flip_phi |-> R(0),
     perspective_flip_gamma |-> R(0),
     noise_schedule |-> "0:(0.02)", color_coherence |-> "Match Frame 0 LAB",
     diffusion_cadence |-> 1, optical_flow_cadence |-> "None"]

\* a + (b - a) * t
Lerp(a, b, t) == RAdd(a, RMul(RSub(b, a), t))

(***************************************************************************)
(* _get_keyframe_at_frame.  keyframes is the list of keyframe objects; a   *)
(* result with ref = p > 0 IS the object keyframes[p] (returned by         *)
(* reference), a result with ref = 0 is a newly constructed object, val.   *)
(***************************************************************************)
NoKeyframe == AnimationKeyframe(-1, "")

\* sorted(keyframes, key=lambda x: x.frame): positions in stable ascending order
SortedPos(keyframes) ==
    LET n == Len(keyframes)
        Prec(q, p) == \/ keyframes[q].frame < keyframes[p].frame
                      \/ (keyframes[q].frame = keyframes[p].frame /\ q < p)
    IN  [i \in 1..n |->
            CHOOSE p \in 1..n : Cardinality({q \in 1..n : Prec(q, p)}) = i - 1]

\* the keyframe returned when frame_idx precedes every keyframe
FirstKeyframePos(keyframes) == 1

\* faulty variant: the midpoint still belongs to the earlier keyframe
PromptAtLate(before, after, t) ==
    IF RLe(t, <<1, 2>>) THEN before.prompt ELSE after.prompt

\* prompt=before.prompt if t < 0.5 else after.prompt
PromptAt(before, after, t) ==
    IF RLt(t, <<1, 2>>) THEN before.prompt ELSE after.prompt

InterpolatedKeyframe(frame_idx, before, after) ==
    LET t == RDiv(R(frame_idx - before.frame), R(after.frame - before.frame))
    IN  [AnimationKeyframe(frame_idx, PromptAt(before, after, t))
           EXCEPT !.negative_prompt = before.negative_prompt,
                  !.strength = Lerp(before.strength, after.strength, t),
                  !.seed = before.seed,
                  !.zoom = Lerp(before.zoom, after.zoom, t),
                  !.angle = Lerp(before.angle, after.angle, t),
                  !.translation_x = Lerp(before.translation_x, after.translation_x, t),
                  !.translation_y = Lerp(before.translation_y, after.translation_y, t),
                  !.translation_z = Lerp(before.translation_z, after.translation_z, t),
                  !.rotation_3d_x = Lerp(before.rotation_3d_x, after.rotation_3d_x, t),
                  !.rotation_3d_y = Lerp(before.rotation_3d_y, after.rotation_3d_y, t),
                  !.rotation_3d_z = Lerp(before.rotation_3d_z, after.rotation_3d_z, t)]

GetKeyframeAtFrame(frame_idx, keyframes) ==
    IF Len(keyframes) = 0
    THEN [ref |-> 0, val |-> AnimationKeyframe(frame_idx, "")]
    ELSE
      LET sorted == SortedPos(keyframes)
          n == Len(keyframes)
          le == {i \in 1..n : keyframes[sorted[i]].frame <= frame_idx}
          gt == {i \in 1..n : keyframes[sorted[i]].frame > frame_idx}
      IN  IF le = {} THEN [ref |-> FirstKeyframePos(keyframes), val |-> NoKeyframe]
          ELSE IF gt = {} THEN [ref |-> sorted[SetMax(le)], val |-> NoKeyframe]
          ELSE [ref |-> 0,
                val |-> InterpolatedKeyframe(frame_idx,
                                             keyframes[sorted[SetMax(le)]],
                                             keyframes[sorted[SetMin(gt)]])]

\* the object a keyframe reference denotes
Deref(k, keyframes) == IF k.ref = 0 THEN k.val ELSE keyframes[k.ref]


(***************************************************************************)
(* Audio features.  audio_data is the caller's dict, modelled as its items *)
(* in order: <<name, kind, values>>, kind "list" for a list/array of       *)
(* numbers and "scalar" for anything else (values then holds the scalar).  *)
(***************************************************************************)
\* faulty variant: the end point is left out (endpoint=False)
LinspaceOpen(n, total_frames, k) == RDiv(R(k * n), R(total_frames))

\* np.linspace(0, n, total_frames)[k], k counted from 0
Linspace(n, total_frames, k) ==
    IF total_frames = 1 THEN R(0) ELSE RDiv(R(k * n), R(total_frames - 1))

\* np.interp(x, np.arange(len(values)), values)
NpInterp(x, values) ==
    LET n == Len(values)
        i == RFloor(x)
    IN  IF RLe(x, R(0)) THEN values[1]
        ELSE IF RLe(R(n - 1), x) THEN values[n]
        ELSE RAdd(values[i + 1],
                  RMul(RSub(values[i + 2], values[i + 1]), RSub(x, R(i))))

Resample(values, total_frames) ==
    [k \in 1..total_frames |->
        NpInterp(Linspace(Len(values), total_frames, k - 1), values)]

\* _parse_audio_data: items <<name, resampled series>> of the list-valued features
RECURSIVE ParseAudioData(_, _)
ParseAudioData(audio_data, total_frames) ==
    IF audio_data = <<>> THEN <<>>
    ELSE LET item == Head(audio_data)
             rest == ParseAudioData(Tail(audio_data), total_frames)
         IN  IF item[2] = "list"
             THEN <<(<<item[1], Resample(item[3], total_frames)>>)>> \o rest
             ELSE rest

HasFeature(audio_params, name) ==
    \E i \in 1..Len(audio_params) : audio_params[i][1] = name

\* audio_params[name][frame_idx]
Feature(audio_params, name, frame_idx) ==
    LET i == CHOOSE j \in 1..Len(audio_params) : audio_params[j][1] = name
    IN  audio_params[i][2][frame_idx + 1]

\* the zoom written by the bass rule
BassZoom(zoom, bass_value) == RMul(zoom, RAdd(R(1), RMul(bass_value, <<1, 5>>)))

\* the angle written by the treble rule
TrebleAngle(angle, treble_value) == RAdd(angle, RMul(treble_value, R(45)))

\* the strength written by the energy rule
EnergyStrength(energy_value) == RAdd(<<1, 2>>, RMul(energy_value, <<1, 2>>))

\* _apply_audio_reactivity: the fields of the keyframe object after the call
ApplyAudioReactivity(kf, audio_params, frame_idx) ==
    LET k1 == IF HasFeature(audio_params, "bass")
              THEN [kf EXCEPT !.zoom =
                       BassZoom(kf.zoom, Feature(audio_params, "bass", frame_idx))]
              ELSE kf
        k2 == IF HasFeature(audio_params, "treble")
              THEN [k1 EXCEPT !.angle =
                       TrebleAngle(k1.angle, Feature(audio_params, "treble", frame_idx))]
              ELSE k1
    IN  IF HasFeature(audio_params, "energy")
        THEN [k2 EXCEPT !.strength =
                 EnergyStrength(Feature(audio_params, "energy", frame_idx))]
        ELSE k2

(***************************************************************************)
(* Image operations.  The library calls (cv2, the diffusion pipeline) are  *)
(* kept as terms over their arguments.                                     *)
(***************************************************************************)
NoImage == <<>>

InitImage == <<"init_image">>

BorderMode(border) == IF border = "wrap" THEN "BORDER_WRAP" ELSE "BORDER_REPLICATE"

(***************************************************************************)
(* Images whose pixels are known: <<"pixels", row>>, row one line of grey  *)
(* values 0..255 (the arrays are height x width x 3 of uint8; the          *)
(* arithmetic below is elementwise, so one line of one channel shows it).  *)
(***************************************************************************)
IsPixels(image) == Len(image) > 0 /\ image[1] = "pixels"

Pixels(row) == <<"pixels", row>>

Width(image) == Len(image[2])

\* cos and sin of an angle in degrees, for the angles where they are rational
ExactAngle(deg) == deg[2] = 1 /\ deg[1] % 90 = 0

CosDeg(deg) ==
    LET q == (deg[1] \div 90) % 4
    IN  IF q = 0 THEN R(1) ELSE IF q = 2 THEN R(-1) ELSE R(0)

SinDeg(deg) ==
    LET q == (deg[1] \div 90) % 4
    IN  IF q = 1 THEN R(1) ELSE IF q = 3 THEN R(-1) ELSE R(0)

\* cv2.getRotationMatrix2D(center, angle, scale), a 2x3 matrix
GetRotationMatrix2D(cx, cy, angle, scale) ==
    LET alpha == RMul(scale, CosDeg(angle))
        beta == RMul(scale, SinDeg(angle))
    IN  << <<alpha, beta,
             RSub(RMul(RSub(R(1), alpha), cx), RMul(beta, cy))>>,
           <<RSub(R(0), beta), alpha,
             RAdd(RMul(beta, cx), RMul(RSub(R(1), alpha), cy))>> >>

\* M = getRotationMatrix2D((w/2, h/2), angle, zoom); M[0,2] += tx; M[1,2] += ty
Matrix2D(w, h, kf) ==
    LET M == GetRotationMatrix2D(<<w, 2>>, <<h, 2>>, kf.angle, kf.zoom)
    IN  [M EXCEPT ![1][3] = RAdd(M[1][3], kf.translation_x),
                  ![2][3] = RAdd(M[2][3], kf.translation_y)]

\* a matrix that moves every pixel by a whole number of pixels
IsShift(M) ==
    /\ M[1][1] = R(1) /\ M[1][2] = R(0)
    /\ M[2][1] = R(0) /\ M[2][2] = R(1)
    /\ M[1][3][2] = 1 /\ M[2][3][2] = 1

\* the source column read for a column outside 0..w-1
BorderColumn(x, w, border_mode) ==
    IF border_mode = "BORDER_WRAP" THEN x % w
    ELSE IF x < 0 THEN 0 ELSE IF x > w - 1 THEN w - 1 ELSE x

\* cv2.warpAffine(img, M, (w, h), borderMode): dst(x, y) = src(M^-1 (x, y)).
\* On a one-line image of known pixels a shift is computed (the line is its
\* own border in y); any other warp is kept as a term.
WarpAffine(image, M, border_mode) ==
    IF IsShift(M)
    THEN Pixels([x \in 1..Width(image) |->
                    image[2][BorderColumn(x - 1 - M[1][3][1], Width(image),
                                          border_mode) + 1]])
    ELSE <<"warpAffine", image, M, border_mode>>

\* the value of a cv2 call that asserts on its arguments
CvError == <<"cv2.error">>

\* cv2.warpPerspective(img, M, (w, h), borderMode): M must be 3x3
WarpPerspective(image, M, rows, cols, border_mode) ==
    IF rows = 3 /\ cols = 3
    THEN <<"warpPerspective", image, M, border_mode>>
    ELSE CvError

\* A @ B for matrices of rationals, B with three rows
MatMul3(A, B) ==
    [i \in 1..Len(A) |->
        [j \in 1..Len(B[1]) |->
            RAdd(RAdd(RMul(A[i][1], B[1][j]), RMul(A[i][2], B[2][j])),
                 RMul(A[i][3], B[3][j]))]]

\* camera_matrix @ np.hstack([Rz @ Ry @ Rx, T.reshape(3, 1)]), a 3x4 matrix
ProjectionMatrix(w, h, kf) ==
    LET camera_matrix == << <<R(w), R(0), <<w, 2>> >>,
                            <<R(0), R(w), <<h, 2>> >>,
                            <<R(0), R(0), R(1)>> >>
        cx == CosDeg(kf.rotation_3d_x)
        sx == SinDeg(kf.rotation_3d_x)
        cy == CosDeg(kf.rotation_3d_y)
        sy == SinDeg(kf.rotation_3d_y)
        cz == CosDeg(kf.rotation_3d_z)
        sz == SinDeg(kf.rotation_3d_z)
        Rx == << <<R(1), R(0), R(0)>>, <<R(0), cx, RSub(R(0), sx)>>, <<R(0), sx, cx>> >>
        Ry == << <<cy, R(0), sy>>, <<R(0), R(1), R(0)>>, <<RSub(R(0), sy), R(0), cy>> >>
        Rz == << <<cz, RSub(R(0), sz), R(0)>>, <<sz, cz, R(0)>>, <<R(0), R(0), R(1)>> >>
        Rot == MatMul3(MatMul3(Rz, Ry), Rx)
        T == <<kf.translation_x, kf.translation_y, kf.translation_z>>
        RT == [i \in 1..3 |-> Append(Rot[i], T[i])]
    IN  MatMul3(camera_matrix, RT)

\* _apply_3d_transform: warpPerspective is handed projection_matrix[:2, :],
\* two rows of four entries, whatever the image and the parameters
Apply3DTransform(image, kf, border) ==
    LET params == <<kf.translation_x, kf.translation_y, kf.translation_z,
                    kf.rotation_3d_x, kf.rotation_3d_y, kf.rotation_3d_z>>
        known == /\ IsPixels(image)
                 /\ ExactAngle(kf.rotation_3d_x)
                 /\ ExactAngle(kf.rotation_3d_y)
                 /\ ExactAngle(kf.rotation_3d_z)
        M == IF known
             THEN SubSeq(ProjectionMatrix(Width(image), 1, kf), 1, 2)
             ELSE params
        cols == IF known THEN Len(M[1]) ELSE 4
    IN  WarpPerspective(image, M, 2, cols, BorderMode(border))

\* _apply_transforms
ApplyTransforms(image, kf, mode, border) ==
    IF mode = "2D"
    THEN IF IsPixels(image) /\ ExactAngle(kf.angle)
         THEN WarpAffine(image, Matrix2D(Width(image), 1, kf), BorderMode(border))
         ELSE <<"warpAffine", image,
                <<kf.angle, kf.zoom, kf.translation_x, kf.translation_y>>,
                BorderMode(border)>>
    ELSE IF mode = "3D"
    THEN Apply3DTransform(image, kf, border)
    ELSE image

\* _apply_optical_flow
ApplyOpticalFlow(current, previous) == <<"remap", current, previous>>

\* torch.Generator, seeded only for a positive seed
Generator(seed) == IF seed > 0 THEN <<"manual_seed", seed>> ELSE <<"unseeded">>

\* self.pipeline(...).images[0] (standard img2img)
Pipeline(kf, image) ==
    <<"pipeline", image, kf.prompt, kf.negative_prompt, kf.strength,
      Generator(kf.seed)>>

\* array.sum() of a row of pixel values
RECURSIVE Sum(_)
Sum(row) == IF row = <<>> THEN 0 ELSE Head(row) + Sum(Tail(row))

\* channel.mean()
Mean(row) == RDiv(R(Sum(row)), R(Len(row)))

\* the square of channel.std(): the mean squared distance from the mean
Variance(row) ==
    RSub(RDiv(R(Sum([x \in 1..Len(row) |-> row[x] * row[x]])), R(Len(row))),
         RMul(Mean(row), Mean(row)))

\* the integer square root of n, searched for in lo..hi
RECURSIVE IntSqrt(_, _, _)
IntSqrt(n, lo, hi) ==
    IF lo >= hi THEN lo
    ELSE LET mid == (lo + hi + 1) \div 2
         IN  IF mid * mid <= n THEN IntSqrt(n, mid, hi) ELSE IntSqrt(n, lo, mid - 1)

\* ref_std / curr_std, the root of the quotient of the variances (exact
\* where that quotient is the square of a rational number)
StdRatio(ref_var, curr_var) ==
    LET q == RDiv(ref_var, curr_var)
    IN  Norm(IntSqrt(q[1], 0, q[1]), IntSqrt(q[2], 0, q[2]))

\* what astype(np.uint8) makes of out-of-range floats on the builds numpy
\* has: the value is not defined by numpy, it either wraps or saturates
Casts == {"wrap", "saturate"}

\* astype(np.uint8) of a float: the fraction is dropped (towards zero); a
\* value outside 0..255 is converted as the build does it
CastUint8(x, cast) ==
    LET t == IF RLt(x, R(0)) THEN -RFloor(RSub(R(0), x)) ELSE RFloor(x)
    IN  IF t \in 0..255 THEN t
        ELSE IF cast = "wrap" THEN t % 256
        ELSE IF t < 0 THEN 0 ELSE 255

\* (curr - curr_mean) * (ref_std / curr_std) + ref_mean at one pixel
Rescaled(v, curr, ref) ==
    RAdd(RMul(RSub(R(v), Mean(curr)), StdRatio(Variance(ref), Variance(curr))),
         Mean(ref))

\* one channel of the RGB branch: rescaled if curr_std > 0, then astype(np.uint8)
MatchChannel(curr, ref, cast) ==
    IF Variance(curr) = R(0) THEN curr
    ELSE [x \in 1..Len(curr) |-> CastUint8(Rescaled(curr[x], curr, ref), cast)]

\* _apply_color_coherence: computed in the RGB branch on images whose pixels
\* are known; the LAB and HSV branches go through cv2.cvtColor and stay terms
ApplyColorCoherence(current, reference, method, cast) ==
    IF /\ IsPixels(current) /\ IsPixels(reference)
       /\ method \notin {"Match Frame 0 LAB", "Match Frame 0 HSV"}
    THEN Pixels(MatchChannel(current[2], reference[2], cast))
    ELSE <<"color_coherence", current, reference, method>>

\* numpy broadcasting of two arrays along the width
Broadcastable(a, b) == Width(a) = Width(b) \/ Width(a) = 1 \/ Width(b) = 1

\* the value of an elementwise operation that numpy refuses
ShapeError == <<"ValueError">>

IsError(image) == image = ShapeError

\* astype(np.uint8) of a value in [0, 256): the fraction is dropped
Uint8(x) == RFloor(x)

\* (a * wa + b * wb).astype(np.uint8) on arrays a, b with scalars wa, wb
WeightedSum(a, wa, b, wb) ==
    IF ~Broadcastable(a, b) THEN ShapeError
    ELSE LET w == IF Width(a) >= Width(b) THEN Width(a) ELSE Width(b)
             At(image, x) == R(image[2][IF Width(image) = 1 THEN 1 ELSE x])
         IN  Pixels([x \in 1..w |->
                        Uint8(RAdd(RMul(At(a, x), wa), RMul(At(b, x), wb)))])

\* faulty variant: the newest frame of the history is the reference
ReferenceFrameNewest(previous_frames) == previous_frames[Len(previous_frames)]

\* reference_frame = self.previous_frames[0]
ReferenceFrame(previous_frames) == previous_frames[1]

\* faulty variant: the weights of the two frames exchanged
BlendFramesSwapped(current, previous, strength) ==
    IF IsPixels(current) /\ IsPixels(previous)
    THEN WeightedSum(current, strength, previous, RSub(R(1), strength))
    ELSE <<"blend", previous, current, strength>>

\* _blend_frames: curr * (1 - strength) + prev * strength, astype(np.uint8)
BlendFrames(current, previous, strength) ==
    IF IsPixels(current) /\ IsPixels(previous)
    THEN WeightedSum(current, RSub(R(1), strength), previous, strength)
    ELSE <<"blend", current, previous, strength>>

\* faulty variant: the weights of the two frames exchanged
InterpolatedFrameSwapped(curr, next_frame, j, factor) ==
    LET alpha == RDiv(R(j), R(factor))
    IN  IF IsPixels(curr) /\ IsPixels(next_frame)
        THEN WeightedSum(curr, alpha, next_frame, RSub(R(1), alpha))
        ELSE <<"interp", next_frame, curr, <<j, factor>>>>

\* alpha = j / factor; interp = curr * (1 - alpha) + next_frame * alpha;
\* Image.fromarray(interp.astype(np.uint8))
InterpolatedFrame(curr, next_frame, j, factor) ==
    LET alpha == RDiv(R(j), R(factor))
    IN  IF IsPixels(curr) /\ IsPixels(next_frame)
        THEN WeightedSum(curr, RSub(R(1), alpha), next_frame, alpha)
        ELSE <<"interp", curr, next_frame, <<j, factor>>>>

\* the try block of _interpolate_frames from iteration i of the outer loop on
\* (i counted from 1), interpolated being the list built so far
RECURSIVE InterpolateFrom(_, _, _, _)
InterpolateFrom(frames, factor, i, interpolated) ==
    IF Len(frames) = 0
    THEN [status |-> "IndexError", interpolated |-> interpolated]  \* frames[-1]
    ELSE IF i > Len(frames) - 1
    THEN [status |-> "ok", interpolated |-> Append(interpolated, frames[Len(frames)])]
    ELSE LET inserted == [j \in 1..(factor - 1) |->
                             InterpolatedFrame(frames[i], frames[i + 1], j, factor)]
         IN  IF factor > 1 /\ IsError(inserted[1])
             THEN [status |-> "ValueError",
                   interpolated |-> Append(interpolated, frames[i])]
             ELSE InterpolateFrom(frames, factor, i + 1,
                                  Append(interpolated, frames[i]) \o inserted)

\* faulty variant: the handler returns what had been built before the error
OnInterpolationErrorPartial(frames, interpolated) == interpolated

\* except Exception as e: print(...); return frames
OnInterpolationError(frames, interpolated) == frames

\* _interpolate_frames
InterpolateFrames(frames, factor) ==
    LET try == InterpolateFrom(frames, factor, 1, <<>>)
    IN  IF try.status = "ok" THEN try.interpolated
        ELSE OnInterpolationError(frames, try.interpolated)

\* faulty variant: the cadence counted from 1, "(frame_idx + 1) % cadence == 0"
CadenceFrameOffByOne(frame_idx, diffusion_cadence) ==
    (frame_idx + 1) % diffusion_cadence = 0

\* the test deciding whether diffusion runs on a frame
CadenceFrame(frame_idx, diffusion_cadence) == frame_idx % diffusion_cadence = 0

\* faulty variant: every frame warped from the first output, frames[0]
PrevImageFirst(frame_idx, frames) ==
    IF frame_idx = 0 THEN InitImage ELSE frames[1]

\* the image _generate_frame warps: init_image if frame_idx == 0 else frames[-1]
PrevImage(frame_idx, frames) ==
    IF frame_idx = 0 THEN InitImage ELSE frames[Len(frames)]

\* faulty variant: pop() in place of pop(0), dropping the newest frame
EvictNewest(previous_frames, temporal_layers) ==
    IF Len(previous_frames) > temporal_layers
    THEN SubSeq(previous_frames, 1, Len(previous_frames) - 1) ELSE previous_frames

\* previous_frames after "if len(...) > temporal_layers: pop(0)"
EvictOldest(previous_frames, temporal_layers) ==
    IF Len(previous_frames) > temporal_layers
    THEN Tail(previous_frames) ELSE previous_frames

(***************************************************************************)
(* parse_schedule_string.  A string is the sequence of its characters.     *)
(***************************************************************************)
Digits == <<"0", "1", "2", "3", "4", "5", "6", "7", "8", "9">>

IsDigit(c) == \E d \in 1..10 : Digits[d] = c

DigitVal(c) == (CHOOSE d \in 1..10 : Digits[d] = c) - 1

RECURSIVE Pow10(_)
Pow10(n) == IF n = 0 THEN 1 ELSE 10 * Pow10(n - 1)

\* the number a string of decimal digits denotes
RECURSIVE DigitsVal(_)
DigitsVal(s) ==
    IF s = <<>> THEN 0
    ELSE 10 * DigitsVal(SubSeq(s, 1, Len(s) - 1)) + DigitVal(s[Len(s)])

AllDigits(s) == \A i \in 1..Len(s) : IsDigit(s[i])

\* str.split(sep)
RECURSIVE Split(_, _)
Split(s, sep) ==
    LET at == {i \in 1..Len(s) : s[i] = sep}
    IN  IF at = {} THEN <<s>>
        ELSE <<SubSeq(s, 1, SetMin(at) - 1)>>
             \o Split(SubSeq(s, SetMin(at) + 1, Len(s)), sep)

\* str.strip(chars)
StripChars(s, chars) ==
    LET keep == {i \in 1..Len(s) : s[i] \notin chars}
    IN  IF keep = {} THEN <<>> ELSE SubSeq(s, SetMin(keep), SetMax(keep))

\* str.strip()
Strip(s) == StripChars(s, {" "})

Unsigned(s) == IF s # <<>> /\ s[1] \in {"+", "-"} THEN Tail(s) ELSE s

Sign(s) == IF s # <<>> /\ s[1] = "-" THEN -1 ELSE 1

\* int(s): ok and the value, or not ok (ValueError)
ParseInt(s) ==
    LET t == Strip(s)
        u == Unsigned(t)
    IN  IF u # <<>> /\ AllDigits(u)
        THEN [ok |-> TRUE, val |-> Sign(t) * DigitsVal(u)]
        ELSE [ok |-> FALSE, val |-> 0]

\* float(s) for decimal literals: ok and the value, or not ok (ValueError)
ParseFloat(s) ==
    LET t == Strip(s)
        u == Unsigned(t)
        dots == {i \in 1..Len(u) : u[i] = "."}
        whole == IF dots = {} THEN u ELSE SubSeq(u, 1, SetMin(dots) - 1)
        frac == IF dots = {} THEN <<>> ELSE SubSeq(u, SetMin(dots) + 1, Len(u))
    IN  IF /\ Cardinality(dots) <= 1
           /\ AllDigits(whole) /\ AllDigits(frac)
           /\ Len(whole) + Len(frac) > 0
        THEN [ok |-> TRUE,
              val |-> Norm(Sign(t) * DigitsVal(whole \o frac), Pow10(Len(frac)))]
        ELSE [ok |-> FALSE, val |-> R(0)]

\* one pass of the loop over schedule.split(','): the point appended, nothing
\* (a part without ':'), or the exception raised
ParsePart(part0) ==
    LET part == Strip(part0)
        pieces == Split(part, ":")
        frame == ParseInt(Strip(pieces[1]))
        value == ParseFloat(StripChars(pieces[2], {"(", ")", " "}))
    IN  IF \A i \in 1..Len(part) : part[i] # ":"
        THEN [status |-> "skip", point |-> <<0, R(0)>>]
        ELSE IF Len(pieces) # 2        \* frame_str, value_str = part.split(':')
        THEN [status |-> "ValueError", point |-> <<0, R(0)>>]
        ELSE IF ~frame.ok \/ ~value.ok
        THEN [status |-> "ValueError", point |-> <<0, R(0)>>]
        ELSE [status |-> "ok", point |-> <<frame.val, value.val>>]

\* the loop over the parts: the points collected, or the first exception
RECURSIVE ParsePoints(_, _)
ParsePoints(parts, points) ==
    IF parts = <<>> THEN [status |-> "ok", points |-> points, part |-> <<>>]
    ELSE LET r == ParsePart(Head(parts))
         IN  IF r.status = "ValueError"
             THEN [status |-> "ValueError", points |-> points, part |-> Head(parts)]
             ELSE ParsePoints(Tail(parts),
                              IF r.status = "ok" THEN Append(points, r.point)
                              ELSE points)

\* the value of one frame: before is the LAST point of the list with f <= frame,
\* after the FIRST point of the list with f > frame
ScheduleValue(points, frame) ==
    LET le == {i \in 1..Len(points) : points[i][1] <= frame}
        gt == {i \in 1..Len(points) : points[i][1] > frame}
        before == points[SetMax(le)]
        after == points[SetMin(gt)]
    IN  IF le = {} THEN points[1][2]
        ELSE IF gt = {} THEN before[2]
        ELSE Lerp(before[2], after[2],
                  RDiv(R(frame - before[1]), R(after[1] - before[1])))

ParseScheduleString(sched, total_frames) ==
    LET parsed == ParsePoints(Split(sched, ","), <<>>)
    IN  IF parsed.status # "ok"
        THEN [status |-> parsed.status, values |-> <<>>, part |-> parsed.part]
        ELSE IF parsed.points = <<>> /\ total_frames > 0
        THEN [status |-> "IndexError", values |-> <<>>, part |-> <<>>]   \* points[0]
        ELSE [status |-> "ok",
              values |-> [k \in 1..total_frames |->
                             ScheduleValue(parsed.points, k - 1)],
              part |-> <<>>]

(***************************************************************************)
(* create_deforum_animation_schedule.  prompt_changes is the set of the    *)
(* dict's <<frame, prompt>> items (one per frame), camera_movements the    *)
(* sequence of its <<parameter, schedule string>> items.                   *)
(***************************************************************************)
\* whether list[i] exists for a Python list and an int i
InRange(list, i) == -Len(list) <= i /\ i < Len(list)

\* list[i]: a negative i counts from the end
PyIndex(list, i) == IF i >= 0 THEN list[i + 1] ELSE list[Len(list) + i + 1]

\* sorted(prompt_changes.items())
SortedItems(prompt_changes) ==
    LET n == Cardinality(prompt_changes)
    IN  [i \in 1..n |->
            CHOOSE it \in prompt_changes :
                Cardinality({o \in prompt_changes : o[1] < it[1]}) = i - 1]

\* parsed_schedules.get(name, [default] * total_frames)
ScheduleOrDefault(parsed_schedules, name, default, total_frames) ==
    IF \E k \in 1..Len(parsed_schedules) : parsed_schedules[k][1] = name
    THEN parsed_schedules[CHOOSE k \in 1..Len(parsed_schedules) :
                              parsed_schedules[k][1] = name][2].values
    ELSE [i \in 1..total_frames |-> default]

\* parsed_schedules[param] = parse_schedule_string(schedule_str, total_frames)
ParsedSchedules(camera_movements, total_frames) ==
    [k \in 1..Len(camera_movements) |->
        <<camera_movements[k][1],
          ParseScheduleString(camera_movements[k][2], total_frames)>>]

\* AnimationKeyframe(frame=frame, prompt=prompt, zoom=...[frame], ...)
DeforumKeyframe(item, parsed_schedules, total_frames) ==
    [AnimationKeyframe(item[1], item[2]) EXCEPT
        !.zoom = PyIndex(ScheduleOrDefault(parsed_schedules, "zoom", R(1),
                                           total_frames), item[1]),
        !.angle = PyIndex(ScheduleOrDefault(parsed_schedules, "angle", R(0),
                                            total_frames), item[1]),
        !.translation_x = PyIndex(ScheduleOrDefault(parsed_schedules, "translation_x",
                                                    R(0), total_frames), item[1]),
        !.translation_y = PyIndex(ScheduleOrDefault(parsed_schedules, "translation_y",
                                                    R(0), total_frames), item[1]),
        !.translation_z = PyIndex(ScheduleOrDefault(parsed_schedules, "translation_z",
                                                    R(0), total_frames), item[1]),
        !.rotation_3d_x = PyIndex(ScheduleOrDefault(parsed_schedules, "rotation_3d_x",
                                                    R(0), total_frames), item[1]),
        !.rotation_3d_y = PyIndex(ScheduleOrDefault(parsed_schedules, "rotation_3d_y",
                                                    R(0), total_frames), item[1]),
        !.rotation_3d_z = PyIndex(ScheduleOrDefault(parsed_schedules, "rotation_3d_z",
                                                    R(0), total_frames), item[1])]

\* (every default list and every parsed list has total_frames entries, so a
\* frame is an index of all of them or of none)
CreateDeforumAnimationSchedule(total_frames, prompt_changes, camera_movements) ==
    LET parsed_schedules == ParsedSchedules(camera_movements, total_frames)
        failed == {k \in 1..Len(camera_movements) : parsed_schedules[k][2].status # "ok"}
        items == SortedItems(prompt_changes)
        outside == {i \in 1..Len(items) :
                       ~InRange(ScheduleOrDefault(parsed_schedules, "zoom", R(1),
                                                  total_frames), items[i][1])}
    IN  IF failed # {}
        THEN [status |-> parsed_schedules[SetMin(failed)][2].status, keyframes |-> <<>>]
        ELSE IF outside # {}
        THEN [status |-> "IndexError", keyframes |-> <<>>]
        ELSE [status |-> "ok",
              keyframes |-> [i \in 1..Len(items) |->
                                DeforumKeyframe(items[i], parsed_schedules, total_frames)]]

(***************************************************************************)
(* AnimationEngine.generate_frames (src/animation_engine.py).  engine      *)
(* holds the attributes and, while the generator runs, its locals:         *)
(*   images         len(self.images); image k is written <<"image", k>>    *)
(*   duration, fps, interpolation    the fields of self.config read here   *)
(*                  (duration None is written <<>>)                        *)
(*   frames         self.frames                                            *)
(*   yielded        the progress values yielded so far                     *)
(*   total_frames, frames_per_transition, img_idx, idx    locals (idx is   *)
(*                  frame_idx in the one-image loop, t_idx in the other)   *)
(*   pc             where the generator stands                             *)
(***************************************************************************)
\* duration = self.config.duration or 10.0; total_frames = int(duration * fps)
TotalFrames(duration, fps) ==
    LET d == IF duration = <<>> \/ duration = R(0) THEN R(10) ELSE duration
    IN  RFloor(RMul(d, R(fps)))

\* faulty variant: the quotient is rounded up
FramesPerTransitionCeil(total_frames, num_images) ==
    (total_frames + num_images - 2) \div (num_images - 1)

\* frames_per_transition = total_frames // (num_images - 1)
FramesPerTransition(total_frames, num_images) == total_frames \div (num_images - 1)

\* _ease_in_out(t) = t * t * (3.0 - 2.0 * t)
EaseInOut(t) == RMul(RMul(t, t), RSub(R(3), RMul(R(2), t)))

\* alpha after the interpolation curve (linear leaves it as it is)
Alpha(interpolation, t) == IF interpolation = "ease-in-out" THEN EaseInOut(t) ELSE t

\* cv2.addWeighted(img1, 1 - alpha, img2, alpha, 0), as a term
AddWeighted(img1, img2, alpha) == <<"addWeighted", img1, img2, alpha>>

NoEngine ==
    [images |-> 0, duration |-> <<>>, fps |-> 0, interpolation |-> "linear",
     frames |-> <<>>, yielded |-> <<>>, total_frames |-> 0,
     frames_per_transition |-> 0, img_idx |-> 0, idx |-> 0, pc |-> "none"]

(***************************************************************************)
(* ModelManager.download_model (src/model_manager.py).  manager holds      *)
(*   models_db      self.models_db: checkpoint id -> ModelCheckpoint (the  *)
(*                  fields download_model reads or writes)                 *)
(*   db_file        models_db.json as save_models_database last wrote it   *)
(*   files          the files under the models directory: path -> content, *)
(*                  a content being the sequence of chunks written         *)
(*   response       what the server answers to requests.get: the status,   *)
(*                  the chunks iter_content delivers ("" is an empty       *)
(*                  chunk), and the chunk at which the connection breaks   *)
(*                  (0: it does not)                                       *)
(*   checkpoint_id, next, pc, result    the argument, the place in the     *)
(*                  chunk loop, the position in download_model and what    *)
(*                  the call returned or raised                            *)
(*   models_db0     self.models_db when the call was made                  *)
(***************************************************************************)
\* hashlib's hexdigest of a content: lower-case hexadecimal digits
Hexdigest(content) == [of |-> content, letters |-> "lower"]

\* str.lower()
Lower(hash) ==
    IF hash.letters = "upper" THEN [hash EXCEPT !.letters = "lower"] ELSE hash

\* a hash field that is None, and one that is the empty string
NoHash == [of |-> <<>>, letters |-> "None"]
EmptyHash == [of |-> <<>>, letters |-> "empty"]

\* `if checkpoint.hash:` -- None and the empty string are false
Truthy(hash) == hash \notin {NoHash, EmptyHash}

\* faulty variant: any recorded hash is accepted
HashAcceptedAlways(content, hash) == TRUE

\* file_hash == checkpoint.hash.lower()
HashAccepted(content, hash) == Hexdigest(content) = Lower(hash)

\* the chunks that `if chunk:` lets through
NonEmpty(chunks) == SelectSeq(chunks, LAMBDA chunk : chunk # "")

NoManager ==
    [models_db |-> <<>>, models_db0 |-> <<>>, db_file |-> <<>>, files |-> <<>>,
     response |-> [status |-> 0, chunks |-> <<>>, breaks_at |-> 0],
     checkpoint_id |-> "", next |-> 0, pc |-> "none", result |-> "none"]

(***************************************************************************)
(* The API of src/generative_animator.py around one project, "p".  api     *)
(* holds                                                                   *)
(*   projects            the module's dict: project id -> ProjectStatus    *)
(*                       (status, progress, message)                       *)
(*   active_connections  the project ids with a WebSocket registered       *)
(*   images, audio       the image files load_images accepts in the        *)
(*                       project directory (-1: the directory is gone),    *)
(*                       and whether there is an audio file                *)
(*   duration, fps       the AnimationConfig of the request                *)
(*   fails_at            the engine step that raises in this run, if any   *)
(*   task                process_animation: pc is the statement it stands  *)
(*                       at, suspended whether it waits in send_json,      *)
(*                       yields what the generator it iterates has still   *)
(*                       to yield, started whether it found the project    *)
(*   upload              upload_images between its check and its write     *)
(*   response            what the last request handler answered            *)
(***************************************************************************)
\* the values generate_frames yields (one image; several images; then 1.0)
GenerateYields(total_frames, num_images) ==
    LET made == (num_images - 1) * FramesPerTransition(total_frames, num_images)
    IN  (IF num_images = 1
         THEN [k \in 1..((total_frames + 9) \div 10) |->
                  RDiv(R(10 * (k - 1)), R(total_frames))]
         ELSE [k \in 1..(made \div 10) |-> RDiv(R(10 * k), R(total_frames))])
        \o <<R(1)>>

\* the values apply_effects yields over n frames
EffectYields(n) ==
    [k \in 1..((n + 9) \div 10) |-> RDiv(R(10 * (k - 1)), R(n))] \o <<R(1)>>

\* the values render_video yields over n frames
RenderYields(n) ==
    [k \in 1..((n + 49) \div 50) |-> RMul(RDiv(R(50 * (k - 1)), R(n)), <<4, 5>>)]
    \o <<(<<9, 10>>), R(1)>>

ProjectStatus(status, progress, message) ==
    [status |-> status, progress |-> progress, message |-> message]

NoApi ==
    [projects |-> <<>>, active_connections |-> {}, images |-> 0, audio |-> FALSE,
     duration |-> <<>>, fps |-> 0, fails_at |-> "none",
     task |-> [pc |-> "none", suspended |-> FALSE, yields |-> <<>>,
               started |-> FALSE],
     upload |-> "idle", response |-> "none"]

(***************************************************************************)
(* State.                                                                  *)
(*   config, keyframes, audio_data  the arguments of generate_animation    *)
(*       (keyframes is config.keyframes: the objects, mutable in place)    *)
(*   keyframes0      the fields of the keyframes when the run started      *)
(*   pc              the position in generate_animation / _generate_frame  *)
(*   frame_idx, frames, audio_params, keyframe, warped_image, output       *)
(*                   the locals of the same names                          *)
(*   previous_frames self.previous_frames                                  *)
(*   log             the calls made so far, in order                       *)
(*   schedule, sched_frames, sched_result                                  *)
(*                   arguments and result of parse_schedule_string         *)
(*   sched_tokens    the tokens the schedule string was written from       *)
(*   prompt_changes, camera_movements, deforum_result                      *)
(*                   arguments and result of                               *)
(*                   create_deforum_animation_schedule (total_frames is    *)
(*                   sched_frames)                                         *)
(*   progress_callback                                                     *)
(*                   the argument of that name: whether one was supplied   *)
(*                   and the frame on which it raises (-1: it never does)  *)
(*   pipeline_fails_at                                                     *)
(*                   the frame on which the diffusion pipeline raises      *)
(*                   (-1: it never does)                                   *)
(*   cancel_request  whether the caller has asked for the run to stop, and *)
(*                   the first frame that had not been started by then     *)
(*   error           the exception that has left generate_animation        *)
(*   runs            the outcomes of the calls of generate_animation that  *)
(*                   have returned or raised on this GenerativeAnimator    *)
(*   engine          the AnimationEngine and its running generate_frames   *)
(*   manager         the ModelManager and its running download_model       *)
(*   api             the projects of the API and the background task       *)
(***************************************************************************)
VARIABLES config, keyframes, keyframes0, audio_data, pc, frame_idx, frames,
          previous_frames, audio_params, keyframe, warped_image, output, log,
          schedule, sched_frames, sched_result, sched_tokens,
          progress_callback, pipeline_fails_at, cancel_request, error,
          prompt_changes, camera_movements, deforum_result,
          runs, engine, manager, api

vars == <<config, keyframes, keyframes0, audio_data, pc, frame_idx, frames,
          previous_frames, audio_params, keyframe, warped_image, output, log,
          schedule, sched_frames, sched_result, sched_tokens,
          progress_callback, pipeline_fails_at, cancel_request, error,
          prompt_changes, camera_movements, deforum_result,
          runs, engine, manager, api>>

runVars == <<config, keyframes, keyframes0, audio_data, frame_idx, frames,
             previous_frames, audio_params, keyframe, warped_image, output, log>>

schedVars == <<schedule, sched_frames, sched_result, sched_tokens,
               prompt_changes, camera_movements, deforum_result>>

envVars == <<progress_callback, pipeline_fails_at, cancel_request>>

\* what is not part of a call of generate_animation: the calls before it,
\* and the state of the other components
sessionVars == <<runs, engine, manager, api>>

Event(op, idx, image, other, kf) ==
    [op |-> op, frame |-> idx, image |-> image, other |-> other, kf |-> kf]

(***************************************************************************)
(* Inputs.                                                                 *)
(***************************************************************************)
KA == [AnimationKeyframe(0, "a") EXCEPT !.seed = 7]

KB == [AnimationKeyframe(2, "b") EXCEPT
          !.negative_prompt = "n", !.strength = <<1, 2>>, !.seed = 0,
          !.zoom = R(2), !.angle = R(10), !.translation_x = R(4),
          !.rotation_3d_x = R(6), !.perspective_flip_theta = R(30)]

KC == [AnimationKeyframe(1, "c") EXCEPT
          !.zoom = <<3, 2>>, !.translation_z = R(-2),
          !.perspective_flip_phi = R(15)]

KD == [AnimationKeyframe(3, "d") EXCEPT !.angle = R(-5), !.rotation_3d_z = R(9)]

AudioNone == <<>>

AudioTempo == << <<"tempo", "scalar", <<R(120)>> >> >>

AudioBass == << <<"bass", "list", <<R(1)>> >> >>

AudioBassEnergy ==
    << <<"bass", "list", <<R(0), R(1)>> >>,
       <<"energy", "list", << <<2, 5>> >> >>,
       <<"tempo", "scalar", <<R(120)>> >> >>

AudioTreble ==
    << <<"treble", "list", <<R(1), R(0), R(1)>> >>,
       <<"mid", "list", <<R(1)>> >> >>

\* <<config.keyframes, audio_data>>
RunInputs ==
    { <<(<<>>), AudioNone>>, <<(<<>>), AudioBass>>,
      <<(<<KA>>), AudioNone>>, <<(<<KA>>), AudioBass>>, <<(<<KA>>), AudioTempo>>,
      <<(<<KA, KB>>), AudioBassEnergy>>, <<(<<KA, KB>>), AudioTreble>>,
      <<(<<KB, KC>>), AudioNone>>, <<(<<KB, KC>>), AudioBassEnergy>> }

\* <<animation_mode, border, use_frame_interpolation>>
Renderings ==
    { <<"2D", "replicate", TRUE>>, <<"2D", "wrap", FALSE>>, <<"3D", "wrap", FALSE>>,
      <<"Video Input", "replicate", TRUE>> }

Configs ==
    { [total_frames |-> n, diffusion_cadence |-> c, temporal_layers |-> l,
       use_optical_flow |-> f, color_coherence |-> cc, temporal_strength |-> ts,
       animation_mode |-> tr[1], border |-> tr[2],
       use_frame_interpolation |-> tr[3], interpolation_factor |-> 2] :
        n \in 0..MaxFrames, c \in 1..MaxCadence, l \in 0..MaxLayers,
        f \in BOOLEAN, cc \in {"None", "Match Frame 0 LAB"},
        ts \in {R(0), <<1, 2>>}, tr \in Renderings }

NoSchedule == <<>>

NoResult == [status |-> "none", values |-> <<>>, part |-> <<>>]

\* no callback
NoCallback == [supplied |-> FALSE, raises_at |-> -1]

NoRequest == [requested |-> FALSE, before_frame |-> -1]

NoError == [type |-> "none", frame |-> -1, cause |-> "none"]

\* an exception as its callee raised it: generate_animation has no handler,
\* so nothing (no frame index, no cause) is attached on the way out
Raised(type) == [type |-> type, frame |-> -1, cause |-> "none"]

\* no callback, a pipeline that works, no cancellation
EnvIdle ==
    /\ progress_callback = NoCallback
    /\ pipeline_fails_at = -1
    /\ cancel_request = NoRequest
    /\ error = NoError

\* no earlier call, and no other component in use
SessionIdle ==
    /\ runs = <<>>
    /\ engine = NoEngine
    /\ manager = NoManager
    /\ api = NoApi

NoDeforumResult == [status |-> "none", keyframes |-> <<>>]

DeforumIdle ==
    /\ prompt_changes = {}
    /\ camera_movements = <<>>
    /\ deforum_result = NoDeforumResult

SchedIdle ==
    /\ schedule = NoSchedule
    /\ sched_frames = 0
    /\ sched_result = NoResult
    /\ sched_tokens = <<>>
    /\ DeforumIdle

\* a configuration for the specifications that run one step only
BaseConfig ==
    [total_frames |-> 0, diffusion_cadence |-> 1, temporal_layers |-> 0,
     use_optical_flow |-> FALSE, color_coherence |-> "None",
     temporal_strength |-> R(0), animation_mode |-> "2D", border |-> "replicate",
     use_frame_interpolation |-> FALSE, interpolation_factor |-> 2]

RunIdle ==
    /\ config = BaseConfig
    /\ audio_data = AudioNone
    /\ frames = <<>>
    /\ previous_frames = <<>>
    /\ audio_params = <<>>
    /\ warped_image = NoImage
    /\ output = NoImage
    /\ log = <<>>
    /\ EnvIdle

Init ==
    /\ config \in Configs
    /\ \E input \in RunInputs : keyframes = input[1] /\ audio_data = input[2]
    /\ keyframes0 = keyframes
    /\ pc = "idle"
    /\ frame_idx = 0
    /\ frames = <<>>
    /\ previous_frames = <<>>
    /\ audio_params = <<>>
    /\ keyframe = [ref |-> 0, val |-> NoKeyframe]
    /\ warped_image = NoImage
    /\ output = NoImage
    /\ log = <<>>
    /\ SchedIdle
    /\ EnvIdle
    /\ SessionIdle

(***************************************************************************)
(* generate_animation, one action per statement group.  (The pipeline is   *)
(* taken as loaded; config.controlnet_models is empty, for which           *)
(* _prepare_controlnet_inputs returns no image; use_animatediff is off.)   *)
(***************************************************************************)
\* frames = [], self.previous_frames = [], audio_params = ...
Start ==
    /\ pc = "idle"
    /\ frames' = <<>>
    /\ previous_frames' = <<>>
    /\ audio_params' = IF audio_data # <<>>
                       THEN ParseAudioData(audio_data, config.total_frames)
                       ELSE <<>>
    /\ frame_idx' = 0
    /\ pc' = "loop"
    /\ UNCHANGED <<config, keyframes, keyframes0, audio_data, keyframe,
                   warped_image, output, log, schedVars, sessionVars, envVars, error>>

\* for frame_idx in range(config.total_frames)
LoopHead ==
    /\ pc = "loop"
    /\ pc' = IF frame_idx < config.total_frames THEN "progress" ELSE "post"
    /\ UNCHANGED <<runVars, schedVars, sessionVars, envVars, error>>

\* if progress_callback: progress_callback(frame_idx, config.total_frames)
\* (the call is not inside any try: what the callback raises leaves
\* generate_animation, and the local list frames goes with it)
Progress ==
    /\ pc = "progress"
    /\ IF ~progress_callback.supplied
       THEN /\ pc' = "resolve"
            /\ UNCHANGED <<frames, log, error>>
       ELSE /\ log' = Append(log, Event("progress", frame_idx, NoImage,
                                        <<frame_idx, config.total_frames>>,
                                        NoKeyframe))
            /\ IF progress_callback.raises_at = frame_idx
               THEN /\ pc' = "raised"
                    /\ error' = Raised("CallbackError")
                    /\ frames' = <<>>
               ELSE /\ pc' = "resolve"
                    /\ UNCHANGED <<frames, error>>
    /\ UNCHANGED <<config, keyframes, keyframes0, audio_data, frame_idx,
                   previous_frames, audio_params, keyframe, warped_image, output,
                   schedVars, sessionVars, envVars>>

\* keyframe = self._get_keyframe_at_frame(frame_idx, config.keyframes)
Resolve ==
    /\ pc = "resolve"
    /\ keyframe' = GetKeyframeAtFrame(frame_idx, keyframes)
    /\ log' = Append(log, Event("resolve", frame_idx, NoImage, NoImage,
                                Deref(keyframe', keyframes)))
    /\ pc' = "audio"
    /\ UNCHANGED <<config, keyframes, keyframes0, audio_data, frame_idx, frames,
                   previous_frames, audio_params, warped_image, output,
                   schedVars, sessionVars, envVars, error>>

\* if audio_params: keyframe = self._apply_audio_reactivity(keyframe, ...)
\* (the call writes the fields of the object it was given and returns it)
Modulate ==
    /\ pc = "audio"
    /\ IF audio_params # <<>>
       THEN LET kf == ApplyAudioReactivity(Deref(keyframe, keyframes),
                                           audio_params, frame_idx)
            IN  /\ keyframe' = IF keyframe.ref = 0
                               THEN [keyframe EXCEPT !.val = kf] ELSE keyframe
                /\ keyframes' = IF keyframe.ref = 0 THEN keyframes
                                ELSE [keyframes EXCEPT ![keyframe.ref] = kf]
                /\ log' = Append(log, Event("audio", frame_idx, NoImage, NoImage, kf))
       ELSE UNCHANGED <<keyframe, keyframes, log>>
    /\ pc' = "transform"
    /\ UNCHANGED <<config, keyframes0, audio_data, frame_idx, frames,
                   previous_frames, audio_params, warped_image, output,
                   schedVars, sessionVars, envVars, error>>

\* _generate_frame: warped_image = self._apply_transforms(prev_image, keyframe, ...)
\* (a cv2.error raised inside is not caught anywhere)
Transform ==
    /\ pc = "transform"
    /\ LET prev_image == PrevImage(frame_idx, frames)
           kf == Deref(keyframe, keyframes)
           transformed == ApplyTransforms(prev_image, kf,
                                          config.animation_mode, config.border)
       IN  /\ log' = Append(log, Event("transform", frame_idx, prev_image, NoImage, kf))
           /\ IF transformed = CvError
              THEN /\ pc' = "raised"
                   /\ error' = Raised("cv2.error")
                   /\ frames' = <<>>
                   /\ UNCHANGED warped_image
              ELSE /\ warped_image' = transformed
                   /\ pc' = "flow"
                   /\ UNCHANGED <<frames, error>>
    /\ output' = NoImage
    /\ UNCHANGED <<config, keyframes, keyframes0, audio_data, frame_idx,
                   previous_frames, audio_params, keyframe,
                   schedVars, sessionVars, envVars>>

\* if config.use_optical_flow and len(self.previous_frames) > 0: ...
OpticalFlow ==
    /\ pc = "flow"
    /\ IF config.use_optical_flow /\ Len(previous_frames) > 0
       THEN LET previous == previous_frames[Len(previous_frames)]
            IN  /\ warped_image' = ApplyOpticalFlow(warped_image, previous)
                /\ log' = Append(log, Event("flow", frame_idx, warped_image,
                                            previous, NoKeyframe))
       ELSE UNCHANGED <<warped_image, log>>
    /\ pc' = "cadence"
    /\ UNCHANGED <<config, keyframes, keyframes0, audio_data, frame_idx, frames,
                   previous_frames, audio_params, keyframe, output,
                   schedVars, sessionVars, envVars, error>>

\* if frame_idx % config.diffusion_cadence == 0: ... else: return warped_image
Cadence ==
    /\ pc = "cadence"
    /\ IF CadenceFrame(frame_idx, config.diffusion_cadence)
       THEN /\ pc' = "synth"
            /\ UNCHANGED output
       ELSE /\ pc' = "append"
            /\ output' = warped_image
    /\ UNCHANGED <<config, keyframes, keyframes0, audio_data, frame_idx, frames,
                   previous_frames, audio_params, keyframe, warped_image, log,
                   schedVars, sessionVars, envVars, error>>

\* output = self.pipeline(...).images[0]
\* (no try around the call either: what the pipeline raises leaves
\* _generate_frame and generate_animation as it is)
Synthesize ==
    /\ pc = "synth"
    /\ LET kf == Deref(keyframe, keyframes)
       IN  /\ log' = Append(log, Event("pipeline", frame_idx, warped_image, NoImage, kf))
           /\ IF pipeline_fails_at = frame_idx
              THEN /\ pc' = "raised"
                   /\ error' = Raised("RuntimeError")
                   /\ frames' = <<>>
                   /\ UNCHANGED output
              ELSE /\ output' = Pipeline(kf, warped_image)
                   /\ pc' = "color"
                   /\ UNCHANGED <<frames, error>>
    /\ UNCHANGED <<config, keyframes, keyframes0, audio_data, frame_idx,
                   previous_frames, audio_params, keyframe, warped_image,
                   schedVars, sessionVars,
                   envVars>>

\* if config.color_coherence != "None" and len(self.previous_frames) > 0: ...
ColorCoherence ==
    /\ pc = "color"
    /\ IF config.color_coherence # "None" /\ Len(previous_frames) > 0
       THEN LET reference_frame == ReferenceFrame(previous_frames)
            IN  /\ \E cast \in Casts :
                      output' = ApplyColorCoherence(output, reference_frame,
                                                    config.color_coherence, cast)
                /\ log' = Append(log, Event("color", frame_idx, output,
                                            reference_frame, NoKeyframe))
       ELSE UNCHANGED <<output, log>>
    /\ pc' = "blend"
    /\ UNCHANGED <<config, keyframes, keyframes0, audio_data, frame_idx, frames,
                   previous_frames, audio_params, keyframe, warped_image,
                   schedVars, sessionVars, envVars, error>>

\* if config.temporal_strength > 0 and len(self.previous_frames) > 0: ...
\* (arrays of different sizes cannot be added: the ValueError is not caught)
TemporalBlend ==
    /\ pc = "blend"
    /\ IF RLt(R(0), config.temporal_strength) /\ Len(previous_frames) > 0
       THEN LET previous == previous_frames[Len(previous_frames)]
                blended == BlendFrames(output, previous, config.temporal_strength)
            IN  /\ log' = Append(log, Event("blend", frame_idx, output,
                                            previous, NoKeyframe))
                /\ IF IsError(blended)
                   THEN /\ pc' = "raised"
                        /\ error' = Raised("ValueError")
                        /\ frames' = <<>>
                        /\ UNCHANGED output
                   ELSE /\ output' = blended
                        /\ pc' = "append"
                        /\ UNCHANGED <<frames, error>>
       ELSE /\ pc' = "append"
            /\ UNCHANGED <<output, log, frames, error>>
    /\ UNCHANGED <<config, keyframes, keyframes0, audio_data, frame_idx,
                   previous_frames, audio_params, keyframe, warped_image,
                   schedVars, sessionVars,
                   envVars>>

\* faulty variant: the warped image is appended, not the finished frame
AppendFrameWarped ==
    /\ pc = "append"
    /\ frames' = Append(frames, warped_image)
    /\ previous_frames' = Append(previous_frames, warped_image)
    /\ log' = Append(log, Event("append", frame_idx, warped_image, NoImage, NoKeyframe))
    /\ pc' = "evict"
    /\ UNCHANGED <<config, keyframes, keyframes0, audio_data, frame_idx,
                   audio_params, keyframe, warped_image, output,
                   schedVars, sessionVars, envVars, error>>

\* frames.append(frame); self.previous_frames.append(frame)
AppendFrame ==
    /\ pc = "append"
    /\ frames' = Append(frames, output)
    /\ previous_frames' = Append(previous_frames, output)
    /\ log' = Append(log, Event("append", frame_idx, output, NoImage, NoKeyframe))
    /\ pc' = "evict"
    /\ UNCHANGED <<config, keyframes, keyframes0, audio_data, frame_idx,
                   audio_params, keyframe, warped_image, output,
                   schedVars, sessionVars, envVars, error>>

\* if len(self.previous_frames) > config.temporal_layers: pop(0); next iteration
Evict ==
    /\ pc = "evict"
    /\ previous_frames' = EvictOldest(previous_frames, config.temporal_layers)
    /\ frame_idx' = frame_idx + 1
    /\ pc' = "loop"
    /\ UNCHANGED <<config, keyframes, keyframes0, audio_data, frames,
                   audio_params, keyframe, warped_image, output, log,
                   schedVars, sessionVars, envVars, error>>

\* if config.use_frame_interpolation and config.interpolation_factor > 1: ...
PostProcess ==
    /\ pc = "post"
    /\ frames' = IF config.use_frame_interpolation /\ config.interpolation_factor > 1
                 THEN InterpolateFrames(frames, config.interpolation_factor)
                 ELSE frames
    /\ log' = IF config.use_frame_interpolation /\ config.interpolation_factor > 1
               THEN Append(log, Event("interpolate", frame_idx, NoImage, frames,
                                      NoKeyframe))
               ELSE log
    /\ pc' = "done"
    /\ UNCHANGED <<config, keyframes, keyframes0, audio_data, frame_idx,
                   previous_frames, audio_params, keyframe, warped_image, output,
                   schedVars, sessionVars, envVars, error>>

Next ==
    \/ Start
    \/ LoopHead
    \/ Progress
    \/ Resolve
    \/ Modulate
    \/ Transform
    \/ OpticalFlow
    \/ Cadence
    \/ Synthesize
    \/ ColorCoherence
    \/ TemporalBlend
    \/ AppendFrame
    \/ Evict
    \/ PostProcess

Spec == Init /\ [][Next]_vars

(***************************************************************************)
(* Reading the call log.                                                   *)
(***************************************************************************)
LogAt(op, idx) == {k \in 1..Len(log) : log[k].op = op /\ log[k].frame = idx}

Called(op, idx) == LogAt(op, idx) # {}

TheCall(op, idx) == log[CHOOSE k \in LogAt(op, idx) : TRUE]

\* the image frame idx was given in frames (the image of its append)
Emitted(idx) == TheCall("append", idx).image

\* the frames of the calls of op, in call order
RECURSIVE FramesOf(_, _)
FramesOf(op, l) ==
    IF l = <<>> THEN <<>>
    ELSE IF Head(l).op = op THEN <<Head(l).frame>> \o FramesOf(op, Tail(l))
    ELSE FramesOf(op, Tail(l))

Ascending(s) == \A k \in 1..Len(s) : s[k] = k - 1

LastN(s, n) == SubSeq(s, Len(s) - n + 1, Len(s))

Min2(a, b) == IF a < b THEN a ELSE b

\* whether self.previous_frames is non-empty while frame idx is generated
HistoryAt(idx) == idx > 0 /\ config.temporal_layers > 0

\* the warped (and, when enabled, flow-aligned) image of a frame
WarpedOf(idx) ==
    LET t == TheCall("transform", idx)
        w == ApplyTransforms(t.image, t.kf, config.animation_mode, config.border)
    IN  IF config.use_optical_flow /\ HistoryAt(idx)
        THEN ApplyOpticalFlow(w, Emitted(idx - 1)) ELSE w

(***************************************************************************)
(* C1: the synthesis oracle is invoked for frame i iff                     *)
(* i % diffusion_cadence = 0 (at most once); every other frame is emitted  *)
(* as exactly the warped (and flow-aligned) image, with no oracle call, no *)
(* colour coherence and no temporal blend.                                 *)
(***************************************************************************)
C1_Cadence ==
    \A i \in 0..(config.total_frames - 1) :
        /\ Called("pipeline", i) => i % config.diffusion_cadence = 0
        /\ Cardinality(LogAt("pipeline", i)) <= 1
        /\ Called("append", i) =>
              /\ Called("pipeline", i) <=> (i % config.diffusion_cadence = 0)
              /\ (i % config.diffusion_cadence # 0) =>
                    /\ Emitted(i) = WarpedOf(i)
                    /\ ~Called("color", i)
                    /\ ~Called("blend", i)

\* cadence 3, frames 0..3 produced: the oracle ran on frames 0 and 3 only
C1_Witness ==
    /\ config.diffusion_cadence = 3
    /\ \A i \in 0..3 : Called("append", i)
    /\ {i \in 0..3 : Called("pipeline", i)} = {0, 3}
    /\ Emitted(1) = WarpedOf(1)

(***************************************************************************)
(* C2: self.previous_frames holds at most temporal_layers images at every  *)
(* frame boundary and wherever _generate_frame reads it, and is the last   *)
(* min(i + 1, temporal_layers) frames produced, in production order.       *)
(***************************************************************************)
C2_History ==
    /\ pc # "evict" => Len(previous_frames) <= config.temporal_layers
    /\ pc \notin {"idle", "evict", "done"} =>
          /\ Len(frames) = frame_idx
          /\ previous_frames =
                LastN(frames, Min2(frame_idx, config.temporal_layers))

\* a full history after an eviction: frames 3 and 4 of four, depth 2
C2_Witness ==
    /\ pc = "loop"
    /\ config.temporal_layers = 2
    /\ frame_idx = 4
    /\ previous_frames = <<frames[3], frames[4]>>
    /\ frames[2] # frames[3]
    /\ frames[3] # frames[4]

(***************************************************************************)
(* C3: the keyframes of the configuration are never mutated during a run.  *)
(***************************************************************************)
C3_KeyframesNotMutated == keyframes = keyframes0

(***************************************************************************)
(* C4: the parameters handed to the transform engine for frame f are the   *)
(* interpolation of the configured keyframes at f, modulated exactly once: *)
(* zoom * (1 + bass[f]*0.2), angle + treble[f]*45, 0.5 + energy[f]*0.5.    *)
(***************************************************************************)
C4_ModulatedOnce ==
    \A k \in 1..Len(log) :
        (log[k].op = "transform" /\ audio_params # <<>>) =>
            LET f == log[k].frame
                base == Deref(GetKeyframeAtFrame(f, keyframes0), keyframes0)
            IN  /\ log[k].kf.zoom =
                      IF HasFeature(audio_params, "bass")
                      THEN RMul(base.zoom,
                                RAdd(R(1), RMul(Feature(audio_params, "bass", f),
                                                <<1, 5>>)))
                      ELSE base.zoom
                /\ log[k].kf.angle =
                      IF HasFeature(audio_params, "treble")
                      THEN RAdd(base.angle,
                                RMul(Feature(audio_params, "treble", f), R(45)))
                      ELSE base.angle
                /\ log[k].kf.strength =
                      IF HasFeature(audio_params, "energy")
                      THEN RAdd(<<1, 2>>,
                                RMul(Feature(audio_params, "energy", f), <<1, 2>>))
                      ELSE base.strength

(***************************************************************************)
(* C5: frames are processed in ascending order, one at a time; frame 0 is  *)
(* warped from the caller's image, frame i > 0 from the output of frame    *)
(* i - 1; before upsampling the sequence holds total_frames frames, frame  *)
(* i at position i.                                                        *)
(***************************************************************************)
C5_Sequential ==
    /\ Ascending(FramesOf("transform", log))
    /\ Ascending(FramesOf("append", log))
    /\ \A k \in 1..Len(log) :
          log[k].op = "transform" =>
              /\ log[k].frame = 0 => log[k].image = InitImage
              /\ log[k].frame > 0 =>
                    /\ \E j \in 1..(k - 1) :
                          log[j].op = "append" /\ log[j].frame = log[k].frame - 1
                    /\ log[k].image = Emitted(log[k].frame - 1)
    /\ pc = "post" =>
          /\ Len(frames) = config.total_frames
          /\ \A i \in 0..(config.total_frames - 1) : frames[i + 1] = Emitted(i)

\* a run of at least three frames at the point where the sequence is complete
C5_Witness ==
    /\ pc = "post"
    /\ config.total_frames >= 3
    /\ TheCall("transform", 2).image = frames[2]
    /\ frames[2] # frames[1]
    /\ frames[1] # InitImage

(***************************************************************************)
(* parse_schedule_string on its own: SpecSched.  The schedule string is    *)
(* written from up to MaxTokens tokens, joined by commas, in any order.    *)
(***************************************************************************)
Token(text, kind, frame, value) ==
    [text |-> text, kind |-> kind, frame |-> frame, value |-> value]

GoodTokens ==
    { Token(<<"0", ":", "(", "1", ".", "0", ")">>, "ok", 0, R(1)),
      Token(<<"1", "0", ":", "(", "2", ".", "0", ")">>, "ok", 10, R(2)),
      Token(<<" ", "5", ":", " ", "(", "3", ")", " ">>, "ok", 5, R(3)),
      Token(<<"2", ":", "(", "-", "0", ".", "5", ")">>, "ok", 2, <<-1, 2>>) }

BadTokens ==
    { Token(<<"7">>, "no_colon", 0, R(0)),
      Token(<<"1", ":", "2", ":", "(", "3", ")">>, "two_colons", 0, R(0)),
      Token(<<"x", ":", "(", "1", ")">>, "bad_frame", 0, R(0)),
      Token(<<"3", ":", "(", "x", ")">>, "bad_value", 0, R(0)),
      Token(<<"4", ":", "1", ".", "5">>, "no_parens", 4, <<3, 2>>) }

TokenLists ==
    UNION { [1..n -> GoodTokens \cup BadTokens] : n \in 1..MaxTokens }

RECURSIVE Join(_)
Join(tokens) ==
    IF Len(tokens) = 1 THEN tokens[1].text
    ELSE tokens[1].text \o <<",">> \o Join(Tail(tokens))

InitSched ==
    /\ sched_tokens \in TokenLists
    /\ schedule = Join(sched_tokens)
    /\ sched_frames \in 0..MaxSchedFrames
    /\ sched_result = NoResult
    /\ DeforumIdle
    /\ pc = "sched_call"
    /\ RunIdle
    /\ keyframes = <<>>
    /\ keyframes0 = <<>>
    /\ frame_idx = 0
    /\ keyframe = [ref |-> 0, val |-> NoKeyframe]
    /\ SessionIdle

CallParseSchedule ==
    /\ pc = "sched_call"
    /\ sched_result' = ParseScheduleString(schedule, sched_frames)
    /\ pc' = "sched_done"
    /\ UNCHANGED <<runVars, sessionVars, schedule, sched_frames, sched_tokens,
                   prompt_changes, camera_movements, deforum_result, envVars,
                   error>>

NextSched == CallParseSchedule

SpecSched == InitSched /\ [][NextSched]_vars

\* the control points the string was written from
Wellformed == \A i \in 1..Len(sched_tokens) : sched_tokens[i].kind = "ok"

UniqueFrames ==
    \A i, j \in 1..Len(sched_tokens) :
        sched_tokens[i].frame = sched_tokens[j].frame => i = j

PointFrames == {sched_tokens[i].frame : i \in 1..Len(sched_tokens)}

PointAt(f) == CHOOSE t \in {sched_tokens[i] : i \in 1..Len(sched_tokens)} : t.frame = f

(***************************************************************************)
(* C6: for a schedule with unique control-point frames, listed in any      *)
(* order, a frame with a control point at or before it and one after it    *)
(* gets the linear interpolation between the NEAREST control point at or   *)
(* before it and the NEAREST control point after it.                       *)
(***************************************************************************)
C6_NearestInterpolation ==
    (pc = "sched_done" /\ Wellformed /\ UniqueFrames) =>
        /\ sched_result.status = "ok"
        /\ \A f \in 0..(sched_frames - 1) :
              LET le == {g \in PointFrames : g <= f}
                  gt == {g \in PointFrames : g > f}
                  before == PointAt(SetMax(le))
                  after == PointAt(SetMin(gt))
              IN  (le # {} /\ gt # {}) =>
                     sched_result.values[f + 1] =
                        RAdd(before.value,
                             RMul(RSub(after.value, before.value),
                                  RDiv(R(f - before.frame),
                                       R(after.frame - before.frame))))

(***************************************************************************)
(* C7: a frame before the smallest control-point frame gets the value of   *)
(* the control point with the smallest frame, a frame at or beyond the     *)
(* largest control-point frame the value of the one with the largest frame.*)
(***************************************************************************)
C7_Held ==
    (pc = "sched_done" /\ Wellformed /\ UniqueFrames) =>
        /\ sched_result.status = "ok"
        /\ \A f \in 0..(sched_frames - 1) :
              /\ f < SetMin(PointFrames) =>
                    sched_result.values[f + 1] = PointAt(SetMin(PointFrames)).value
              /\ f >= SetMax(PointFrames) =>
                    sched_result.values[f + 1] = PointAt(SetMax(PointFrames)).value

(***************************************************************************)
(* C8: every malformed token makes parse_schedule_string fail with a       *)
(* ScheduleSyntaxError that identifies the token; none is skipped.         *)
(***************************************************************************)
C8_SyntaxError ==
    (pc = "sched_done" /\ ~Wellformed) =>
        /\ sched_result.status = "ScheduleSyntaxError"
        /\ \E i \in 1..Len(sched_tokens) :
              /\ sched_tokens[i].kind # "ok"
              /\ sched_result.part = sched_tokens[i].text

(***************************************************************************)
(* _get_keyframe_at_frame on its own: SpecKf.  The keyframe list holds up  *)
(* to MaxKeys keyframes of distinct frames, in any order.                  *)
(***************************************************************************)
KeyframePool == {KA, KB, KC, KD}

KeyframeLists ==
    { l \in UNION { [1..n -> KeyframePool] : n \in 0..MaxKeys } :
        \A i, j \in 1..Len(l) : l[i].frame = l[j].frame => i = j }

InitKf ==
    /\ keyframes \in KeyframeLists
    /\ keyframes0 = keyframes
    /\ frame_idx \in 0..MaxIdx
    /\ keyframe = [ref |-> 0, val |-> NoKeyframe]
    /\ pc = "kf_call"
    /\ RunIdle
    /\ SchedIdle
    /\ SessionIdle

CallGetKeyframe ==
    /\ pc = "kf_call"
    /\ keyframe' = GetKeyframeAtFrame(frame_idx, keyframes)
    /\ pc' = "kf_done"
    /\ UNCHANGED <<config, keyframes, keyframes0, audio_data, frame_idx, frames,
                   previous_frames, audio_params, warped_image, output, log,
                   schedVars, sessionVars, envVars, error>>

NextKf == CallGetKeyframe

SpecKf == InitKf /\ [][NextKf]_vars

KeyframeFrames == {keyframes[p].frame : p \in 1..Len(keyframes)}

KeyframeOf(f) == keyframes[CHOOSE p \in 1..Len(keyframes) : keyframes[p].frame = f]

(***************************************************************************)
(* C9: called with frame_idx = before.frame, _get_keyframe_at_frame        *)
(* returns a keyframe equal to before in every field, whether or not a     *)
(* later keyframe exists.                                                  *)
(***************************************************************************)
C9_ExactAtKeyframe ==
    pc = "kf_done" =>
        \A p \in 1..Len(keyframes) :
            keyframes[p].frame = frame_idx =>
                Deref(keyframe, keyframes) = keyframes[p]

(***************************************************************************)
(* C10: whatever the order of the list, a frame_idx before every keyframe  *)
(* gets the keyframe with the smallest frame, unchanged, and a frame_idx   *)
(* at or after the last keyframe gets the one with the largest frame.      *)
(***************************************************************************)
C10_OrderIndependent ==
    (pc = "kf_done" /\ keyframes # <<>>) =>
        /\ frame_idx < SetMin(KeyframeFrames) =>
              Deref(keyframe, keyframes) = KeyframeOf(SetMin(KeyframeFrames))
        /\ frame_idx >= SetMax(KeyframeFrames) =>
              Deref(keyframe, keyframes) = KeyframeOf(SetMax(KeyframeFrames))


\* the keyframes sorted() puts around frame_idx
Before == KeyframeOf(SetMax({f \in KeyframeFrames : f <= frame_idx}))

After == KeyframeOf(SetMin({f \in KeyframeFrames : f > frame_idx}))

StrictlyBetween ==
    /\ \E f \in KeyframeFrames : f < frame_idx
    /\ \E f \in KeyframeFrames : f > frame_idx
    /\ frame_idx \notin KeyframeFrames

(***************************************************************************)
(* C11: for a frame_idx strictly between two keyframes the result carries  *)
(* before.prompt while t = (frame_idx - before.frame) / (after.frame -     *)
(* before.frame) is below 1/2 and after.prompt from t = 1/2 on, the exact  *)
(* midpoint included.                                                      *)
(***************************************************************************)
C11_PromptSwitch ==
    (pc = "kf_done" /\ StrictlyBetween) =>
        /\ keyframe.ref = 0
        /\ 2 * (frame_idx - Before.frame) < After.frame - Before.frame
              => keyframe.val.prompt = Before.prompt
        /\ 2 * (frame_idx - Before.frame) >= After.frame - Before.frame
              => keyframe.val.prompt = After.prompt

\* the exact midpoint of two keyframes with different prompts
C11_Witness ==
    /\ pc = "kf_done"
    /\ StrictlyBetween
    /\ 2 * (frame_idx - Before.frame) = After.frame - Before.frame
    /\ Before.prompt # After.prompt
    /\ keyframe.val.prompt = After.prompt

(***************************************************************************)
(* C12: with an empty keyframe list _get_keyframe_at_frame does not fail   *)
(* and returns a new neutral keyframe for the frame: empty prompt, zoom 1, *)
(* angle 0, all translations 0, all 3D rotations 0, all perspective flips  *)
(* 0.                                                                      *)
(***************************************************************************)
C12_EmptyKeyframes ==
    (pc = "kf_done" /\ keyframes = <<>>) =>
        /\ keyframe.ref = 0
        /\ keyframe.val.frame = frame_idx
        /\ keyframe.val.prompt = ""
        /\ keyframe.val.zoom = <<1, 1>>
        /\ keyframe.val.angle = <<0, 1>>
        /\ \A f \in {"translation_x", "translation_y", "translation_z",
                      "rotation_3d_x", "rotation_3d_y", "rotation_3d_z",
                      "perspective_flip_theta", "perspective_flip_phi",
                      "perspective_flip_gamma"} : keyframe.val[f] = <<0, 1>>

\* the call has returned for an empty list and a frame other than 0
C12_Witness ==
    /\ pc = "kf_done"
    /\ keyframes = <<>>
    /\ frame_idx = MaxIdx
    /\ keyframe.val.frame = MaxIdx

(***************************************************************************)
(* The post-processing step of generate_animation on its own: SpecInterp.  *)
(* The run has produced up to MaxClip frames whose pixels are known; most  *)
(* have width 2, one has width 3 (a size the others cannot be mixed with). *)
(***************************************************************************)
PixelValues == {0, 1, 255}

PixelImages ==
    {Pixels(<<a, b>>) : a, b \in PixelValues} \cup {Pixels(<<7, 7, 7>>)}

Clips == UNION { [1..n -> PixelImages] : n \in 0..MaxClip }

InitInterp ==
    /\ frames \in Clips
    /\ \E u \in BOOLEAN, k \in 1..MaxFactor :
          config = [BaseConfig EXCEPT !.total_frames = Len(frames),
                                      !.use_frame_interpolation = u,
                                      !.interpolation_factor = k]
    /\ pc = "post"
    /\ frame_idx = Len(frames)
    /\ output = IF frames = <<>> THEN NoImage ELSE frames[Len(frames)]
    /\ keyframes = <<>>
    /\ keyframes0 = <<>>
    /\ keyframe = [ref |-> 0, val |-> NoKeyframe]
    /\ audio_data = AudioNone
    /\ audio_params = <<>>
    /\ previous_frames = <<>>
    /\ warped_image = NoImage
    /\ log = <<>>
    /\ SchedIdle
    /\ EnvIdle
    /\ SessionIdle

NextInterp == PostProcess

SpecInterp == InitInterp /\ [][NextInterp]_vars

\* _interpolate_frames was called, and the list it was given
Interpolating == \E k \in 1..Len(log) : log[k].op = "interpolate"

Given == log[CHOOSE k \in 1..Len(log) : log[k].op = "interpolate"].other

SameSize(l) == \A i, j \in 1..Len(l) : Width(l[i]) = Width(l[j])

\* A * (1 - j/k) + B * (j/k) at pixel x, as a rational
MixAt(A, B, j, k, x) ==
    RAdd(RMul(R(A[2][x]), RSub(R(1), RDiv(R(j), R(k)))),
         RMul(R(B[2][x]), RDiv(R(j), R(k))))

\* the result has (n-1)*k + 1 frames with original i (from 0) at position i*k
Spaced(n, k) ==
    /\ Len(frames) = (n - 1) * k + 1
    /\ \A i \in 0..(n - 1) : frames[i * k + 1] = Given[i + 1]

C14_ErrorReturnsInput ==
    (pc = "done" /\ Interpolating) =>
        ((\/ Given = <<>>
          \/ \E i \in 1..(Len(Given) - 1) : Width(Given[i]) # Width(Given[i + 1]))
            => frames = Given)

\* the second pair cannot be mixed, the first one could and was
C14_Witness ==
    /\ pc = "done"
    /\ Interpolating
    /\ Len(Given) = 3
    /\ Given[1] # Given[2]
    /\ Width(Given[1]) = Width(Given[2])
    /\ Width(Given[2]) # Width(Given[3])
    /\ frames = Given

(***************************************************************************)
(* generate_animation with its surroundings: SpecEnv.  The caller may      *)
(* supply a progress callback, which may raise on some frame; the pipeline *)
(* may raise on some frame; and the caller may, at any moment of the run,  *)
(* ask for it to stop.  generate_animation takes no argument and reads no  *)
(* attribute through which such a request could reach it, so the request   *)
(* is state of the caller only.                                            *)
(***************************************************************************)
Callback(raises_at) == [supplied |-> TRUE, raises_at |-> raises_at]

\* <<progress_callback, pipeline_fails_at>>
EnvInputs ==
    { <<NoCallback, -1>>, <<NoCallback, 1>>,
      <<Callback(-1), -1>>, <<Callback(-1), 0>>, <<Callback(-1), 2>>,
      <<Callback(1), -1>>, <<Callback(0), 0>> }

EnvConfigs ==
    { c \in Configs : /\ c.use_optical_flow
                      /\ c.color_coherence = "None"
                      /\ c.temporal_strength = <<1, 2>>
                      /\ c.animation_mode = "2D"
                      /\ c.border = "replicate" }

InitEnv ==
    /\ config \in EnvConfigs
    /\ keyframes = <<KA>>
    /\ keyframes0 = keyframes
    /\ audio_data = AudioNone
    /\ pc = "idle"
    /\ frame_idx = 0
    /\ frames = <<>>
    /\ previous_frames = <<>>
    /\ audio_params = <<>>
    /\ keyframe = [ref |-> 0, val |-> NoKeyframe]
    /\ warped_image = NoImage
    /\ output = NoImage
    /\ log = <<>>
    /\ SchedIdle
    /\ \E input \in EnvInputs :
          progress_callback = input[1] /\ pipeline_fails_at = input[2]
    /\ cancel_request = NoRequest
    /\ error = NoError
    /\ SessionIdle

\* the caller asks for the run to stop; before_frame is the first frame
\* whose iteration has not begun
RequestCancel ==
    /\ pc \notin {"done", "raised"}
    /\ ~cancel_request.requested
    /\ cancel_request' = [requested |-> TRUE,
                          before_frame |-> IF pc \in {"idle", "loop"}
                                           THEN frame_idx ELSE frame_idx + 1]
    /\ UNCHANGED <<runVars, pc, schedVars, sessionVars, progress_callback,
                   pipeline_fails_at, error>>

NextEnv ==
    \/ Next
    \/ RequestCancel

SpecEnv == InitEnv /\ [][NextEnv]_vars

\* 0, 1, ..., n-1
Counting(s) == \A i \in 1..Len(s) : s[i] = i - 1

(***************************************************************************)
(* C15: a supplied progress callback is invoked exactly once per frame, in *)
(* frame order, with (current_index, total_frames), and an exception it    *)
(* raises is ignored: it never ends the run.                               *)
(***************************************************************************)
C15_ProgressCallback ==
    progress_callback.supplied =>
        /\ Counting(FramesOf("progress", log))
        /\ \A k \in 1..Len(log) :
              /\ log[k].op = "progress" =>
                    log[k].other = <<log[k].frame, config.total_frames>>
              /\ log[k].op = "resolve" => Called("progress", log[k].frame)
        /\ error.type # "CallbackError"

(***************************************************************************)
(* C16: when the pipeline fails on frame i the run ends with a             *)
(* GenerationError carrying i and the underlying cause, nothing is done    *)
(* for any frame after i, and the frames 0..i-1 produced before remain in  *)
(* reach of the caller.                                                    *)
(***************************************************************************)
C16_GenerationError ==
    (pc = "raised" /\ log[Len(log)].op = "pipeline") =>
        LET i == log[Len(log)].frame
        IN  /\ error.type = "GenerationError"
            /\ error.frame = i
            /\ error.cause = "RuntimeError"
            /\ \A k \in 1..Len(log) : log[k].frame <= i
            /\ \A f \in 0..(i - 1) :
                  \/ \E p \in 1..Len(frames) : frames[p] = Emitted(f)
                  \/ \E p \in 1..Len(previous_frames) : previous_frames[p] = Emitted(f)

(***************************************************************************)
(* C19: a cancellation request is honoured at the next frame boundary: no  *)
(* frame that had not begun when the request arrived is started, and the   *)
(* frames completed by then are kept.                                      *)
(***************************************************************************)
C19_Cancellation ==
    cancel_request.requested =>
        /\ \A k \in 1..Len(log) :
              log[k].op \in {"progress", "resolve"}
                  => log[k].frame < cancel_request.before_frame
        /\ pc = "done" =>
              \A f \in 0..(cancel_request.before_frame - 1) :
                  Called("append", f) =>
                      \E p \in 1..Len(frames) : frames[p] = Emitted(f)

(***************************************************************************)
(* create_deforum_animation_schedule on its own: SpecDeforum.  Up to two   *)
(* prompt changes at frames -MaxDeforum..MaxDeforum, total_frames from 1   *)
(* (the least the request model admits) to MaxDeforum.                     *)
(***************************************************************************)
ZoomSchedule ==
    Join(<<Token(<<"0", ":", "(", "1", ".", "0", ")">>, "ok", 0, R(1)),
           Token(<<"2", ":", "(", "3", ")">>, "ok", 2, R(3))>>)

CameraMovements ==
    { <<>>,
      << <<"zoom", ZoomSchedule>> >>,
      << <<"angle", <<"0", ":", "(", "9", ")">> >>, <<"zoom", ZoomSchedule>> >>,
      << <<"zoom", ZoomSchedule>>, <<"angle", <<"7">> >> >> }

PromptChanges ==
    { s \in SUBSET { <<f, "p">> : f \in (-MaxDeforum)..MaxDeforum } :
        Cardinality(s) <= 2 }

InitDeforum ==
    /\ sched_frames \in 1..MaxDeforum
    /\ prompt_changes \in PromptChanges
    /\ camera_movements \in CameraMovements
    /\ deforum_result = NoDeforumResult
    /\ schedule = NoSchedule
    /\ sched_result = NoResult
    /\ sched_tokens = <<>>
    /\ pc = "deforum_call"
    /\ RunIdle
    /\ keyframes = <<>>
    /\ keyframes0 = <<>>
    /\ frame_idx = 0
    /\ keyframe = [ref |-> 0, val |-> NoKeyframe]
    /\ SessionIdle

CallCreateSchedule ==
    /\ pc = "deforum_call"
    /\ deforum_result' = CreateDeforumAnimationSchedule(sched_frames, prompt_changes,
                                                        camera_movements)
    /\ pc' = "deforum_done"
    /\ UNCHANGED <<runVars, sessionVars, schedule, sched_frames, sched_result,
                   sched_tokens, prompt_changes, camera_movements, envVars,
                   error>>

NextDeforum == CallCreateSchedule

SpecDeforum == InitDeforum /\ [][NextDeforum]_vars

(***************************************************************************)
(* C17: every keyframe create_deforum_animation_schedule returns has       *)
(* 0 <= frame < total_frames; a prompt_changes key that is negative or     *)
(* >= total_frames yields no keyframe.                                     *)
(***************************************************************************)
C17_FramesInRange ==
    pc = "deforum_done" =>
        \A k \in 1..Len(deforum_result.keyframes) :
            /\ 0 <= deforum_result.keyframes[k].frame
            /\ deforum_result.keyframes[k].frame < sched_frames

(***************************************************************************)
(* The temporal blend stage of _generate_frame on its own: SpecBlend.  A   *)
(* cadence frame has been synthesised (and colour-matched); the output and *)
(* the frames in self.previous_frames are images of one size whose pixels  *)
(* are known.                                                              *)
(***************************************************************************)
BlendImages == {Pixels(<<a, b>>) : a, b \in PixelValues}

Histories == UNION { [1..n -> BlendImages] : n \in 0..MaxLayers }

Strengths == {R(0), <<1, 4>>, <<1, 2>>, R(1)}

InitBlend ==
    /\ previous_frames \in Histories
    /\ frames = previous_frames
    /\ frame_idx = Len(previous_frames)
    /\ output \in BlendImages
    /\ \E s \in Strengths :
          config = [BaseConfig EXCEPT !.total_frames = Len(previous_frames) + 1,
                                      !.temporal_layers = MaxLayers,
                                      !.temporal_strength = s]
    /\ pc = "blend"
    /\ keyframes = <<>>
    /\ keyframes0 = <<>>
    /\ keyframe = [ref |-> 0, val |-> AnimationKeyframe(frame_idx, "")]
    /\ audio_data = AudioNone
    /\ audio_params = <<>>
    /\ warped_image = NoImage
    /\ log = <<>>
    /\ SchedIdle
    /\ EnvIdle
    /\ SessionIdle

NextBlend ==
    \/ TemporalBlend
    \/ AppendFrame

SpecBlend == InitBlend /\ [][NextBlend]_vars

(***************************************************************************)
(* C18: on a cadence frame with non-empty history the blend stage leaves   *)
(* the (colour-normalised) synthesis output unchanged when                 *)
(* temporal_strength = 0, and replaces it by the most recent history frame *)
(* when temporal_strength = 1 (every pixel equal, so within any rounding); *)
(* the frame then emitted is that output.                                  *)
(***************************************************************************)
C18_BlendEndpoints ==
    [][ /\ (pc = "blend" /\ Len(previous_frames) > 0) =>
              /\ config.temporal_strength = <<0, 1>> => output' = output
              /\ config.temporal_strength = <<1, 1>> =>
                    output' = previous_frames[Len(previous_frames)]
        /\ pc = "append" => frames' = Append(frames, output) ]_vars

\* strength 1 has replaced an output that differed from the last frame
C18_Witness ==
    /\ pc = "evict"
    /\ config.temporal_strength = <<1, 1>>
    /\ Called("blend", frame_idx)
    /\ TheCall("blend", frame_idx).image # TheCall("blend", frame_idx).other
    /\ Emitted(frame_idx) = TheCall("blend", frame_idx).other
    /\ frames[Len(frames)] = Emitted(frame_idx)

(***************************************************************************)
(* The transform step of _generate_frame on its own: SpecWarp.  Frame 1 is *)
(* being generated from a frame 0 whose pixels are known (one line of      *)
(* three), under a keyframe that is the identity or departs from it in     *)
(* some motion parameters.                                                 *)
(***************************************************************************)
WarpImages == {Pixels(<<10, 20, 30>>), Pixels(<<0, 255, 0>>), Pixels(<<7, 7, 9>>)}

WarpKeyframes ==
    { [AnimationKeyframe(1, "") EXCEPT
          !.zoom = z, !.angle = a, !.translation_x = tx, !.translation_y = ty,
          !.translation_z = tz, !.rotation_3d_z = rz] :
        z \in {R(1), R(2)}, a \in {R(0), R(90)},
        tx \in {R(0), R(1), R(-1), <<1, 2>>}, ty \in {R(0), R(1)},
        tz \in {R(0), R(1)}, rz \in {R(0), R(90)} }

InitWarp ==
    /\ frames \in {<<image>> : image \in WarpImages}
    /\ previous_frames = frames
    /\ frame_idx = 1
    /\ \E kf \in WarpKeyframes : keyframe = [ref |-> 0, val |-> kf]
    /\ \E mode \in {"2D", "3D", "Video Input"}, border \in {"replicate", "wrap"} :
          config = [BaseConfig EXCEPT !.total_frames = 2,
                                      !.temporal_layers = 1,
                                      !.animation_mode = mode,
                                      !.border = border]
    /\ pc = "transform"
    /\ keyframes = <<>>
    /\ keyframes0 = <<>>
    /\ audio_data = AudioNone
    /\ audio_params = <<>>
    /\ warped_image = NoImage
    /\ output = frames[1]
    /\ log = <<>>
    /\ SchedIdle
    /\ EnvIdle
    /\ SessionIdle

NextWarp == Transform

SpecWarp == InitWarp /\ [][NextWarp]_vars

\* zoom = 1, angle = 0, all translations 0, all 3D rotations 0
IdentityMotion(kf) ==
    /\ kf.zoom = <<1, 1>>
    /\ kf.angle = <<0, 1>>
    /\ \A f \in {"translation_x", "translation_y", "translation_z",
                  "rotation_3d_x", "rotation_3d_y", "rotation_3d_z"} : kf[f] = <<0, 1>>

(***************************************************************************)
(* C20: with all motion parameters at identity, _apply_transforms returns  *)
(* an image identical to its input, in animation mode 2D and in animation  *)
(* mode 3D alike.                                                          *)
(***************************************************************************)
C20_IdentityTransform ==
    (/\ Called("transform", frame_idx)
     /\ IdentityMotion(TheCall("transform", frame_idx).kf)
     /\ config.animation_mode \in {"2D", "3D"}) =>
        /\ pc = "flow"
        /\ warped_image = TheCall("transform", frame_idx).image

\* the fields of a keyframe that hold numbers to be interpolated
NumericFields ==
    {"strength", "zoom", "angle", "translation_x", "translation_y", "translation_z",
     "rotation_3d_x", "rotation_3d_y", "rotation_3d_z",
     "perspective_flip_theta", "perspective_flip_phi", "perspective_flip_gamma"}

\* t = (frame_idx - before.frame) / (after.frame - before.frame)
Fraction == <<frame_idx - Before.frame, After.frame - Before.frame>>

(***************************************************************************)
(* C22: for a frame_idx strictly between two keyframes every numeric field *)
(* of the result (strength, zoom, angle, the translations, the 3D          *)
(* rotations and the perspective flips) is before.field + (after.field -   *)
(* before.field) * t; none falls back to the dataclass default.            *)
(***************************************************************************)
C22_AllFieldsInterpolated ==
    (pc = "kf_done" /\ StrictlyBetween) =>
        \A f \in NumericFields :
            RMul(RSub(keyframe.val[f], Before[f]), R(Fraction[2])) =
                RMul(RSub(After[f], Before[f]), R(Fraction[1]))

\* the generator argument of the pipeline call that produced an image
GeneratorOf(image) == image[6]

(***************************************************************************)
(* C26: a keyframe seed counts as unspecified only when it is negative:    *)
(* for every seed >= 0, seed 0 included, the generator handed to the       *)
(* diffusion pipeline has been seeded with exactly that seed.              *)
(***************************************************************************)
C26_SeedHonoured ==
    (pc = "color" /\ Called("pipeline", frame_idx)) =>
        LET kf == TheCall("pipeline", frame_idx).kf
        IN  kf.seed >= 0 => GeneratorOf(output) = <<"manual_seed", kf.seed>>

(***************************************************************************)
(* The stages of _generate_frame that follow the synthesis, and the        *)
(* history update of generate_animation, on their own: SpecCoh.  Frame     *)
(* frame_idx, a cadence frame, has been synthesised; frames holds the      *)
(* frames produced before it and self.previous_frames the last             *)
(* temporal_layers of them.  All are images of three pixels whose values   *)
(* are known: constant ones, and ones with two values in the proportion    *)
(* 2 : 1 (the quotient of the standard deviations of two such images is a  *)
(* rational number).                                                       *)
(***************************************************************************)
CohImages ==
    { Pixels(<<0, 0, 255>>), Pixels(<<0, 255, 255>>), Pixels(<<100, 100, 200>>),
      Pixels(<<10, 20, 20>>), Pixels(<<50, 50, 50>>) }

InitCoh ==
    /\ frames \in UNION { [1..n -> CohImages] : n \in 0..MaxClip }
    /\ frame_idx = Len(frames)
    /\ \E d \in 1..MaxLayers, cc \in {"None", "Match Frame 0 RGB"},
          s \in {R(0), <<1, 2>>} :
          /\ config = [BaseConfig EXCEPT !.total_frames = Len(frames) + 1,
                                         !.temporal_layers = d,
                                         !.color_coherence = cc,
                                         !.temporal_strength = s]
          /\ previous_frames = LastN(frames, Min2(Len(frames), d))
    /\ output \in CohImages
    /\ pc = "color"
    /\ keyframes = <<>>
    /\ keyframes0 = <<>>
    /\ keyframe = [ref |-> 0, val |-> AnimationKeyframe(frame_idx, "")]
    /\ audio_data = AudioNone
    /\ audio_params = <<>>
    /\ warped_image = NoImage
    /\ log = <<>>
    /\ SchedIdle
    /\ EnvIdle
    /\ SessionIdle

NextCoh ==
    \/ ColorCoherence
    \/ TemporalBlend
    \/ AppendFrame
    \/ Evict

SpecCoh == InitCoh /\ [][NextCoh]_vars

\* |a - b| <= e
Within(a, b, e) == RLe(RSub(a, b), e) /\ RLe(RSub(b, a), e)

(***************************************************************************)
(* C21: after _apply_color_coherence, for a channel whose standard         *)
(* deviation in the current frame is nonzero, the mean of the returned     *)
(* channel is within a small epsilon (here one grey level, the most the    *)
(* conversion to uint8 costs) of the reference frame's channel mean, for   *)
(* all 8-bit inputs, also where the rescaled values leave 0..255.          *)
(***************************************************************************)
C21_MeanMatched ==
    (pc = "blend" /\ Called("color", frame_idx)) =>
        LET c == TheCall("color", frame_idx)
        IN  Variance(c.image[2]) # R(0) =>
                Within(Mean(output[2]), Mean(c.other[2]), R(1))

\* the stages of frame_idx that read the history have run on a history that
\* was not empty
StagesRan ==
    /\ pc = "append"
    /\ Len(previous_frames) > 0
    /\ config.color_coherence # "None" => Called("color", frame_idx)
    /\ RLt(R(0), config.temporal_strength) => Called("blend", frame_idx)

\* colour coherence read output frame i - min(i, d), the blend output frame i - 1
ReadOldestAndNewest ==
    \A k \in 1..Len(log) :
        LET i == log[k].frame
        IN  /\ log[k].op = "color" =>
                  log[k].other = frames[i - Min2(i, config.temporal_layers) + 1]
            /\ log[k].op = "blend" => log[k].other = frames[i]

StageRank(op) ==
    CASE op = "progress" -> 0
      [] op = "resolve" -> 1
      [] op = "audio" -> 2
      [] op = "transform" -> 3
      [] op = "flow" -> 4
      [] op = "pipeline" -> 5
      [] op = "color" -> 6
      [] op = "blend" -> 7
      [] op = "append" -> 8
      [] OTHER -> 9

\* the image was appended, for a frame before idx, earlier than log position k
FromEarlierFrame(image, idx, k) ==
    \E j \in 1..(k - 1) :
        log[j].op = "append" /\ log[j].frame < idx /\ log[j].image = image

\* what the synthesis of frame idx returned
SynthOf(idx) == Pipeline(TheCall("pipeline", idx).kf, TheCall("pipeline", idx).image)

\* the images colour coherence can have returned for frame idx
MatchedOf(idx) ==
    { ApplyColorCoherence(TheCall("color", idx).image, TheCall("color", idx).other,
                          config.color_coherence, cast) : cast \in Casts }

\* the image the last stage that ran for frame idx returned
FinalOf(idx) ==
    IF Called("blend", idx)
    THEN BlendFrames(TheCall("blend", idx).image, TheCall("blend", idx).other,
                     config.temporal_strength)
    ELSE IF Called("color", idx) THEN CHOOSE image \in MatchedOf(idx) : TRUE
    ELSE IF Called("pipeline", idx) THEN SynthOf(idx)
    ELSE WarpedOf(idx)

(***************************************************************************)
(* C23: within each frame the stages run in the order resolve keyframe,    *)
(* audio modulation, transform, motion compensation (only with             *)
(* use_optical_flow and a non-empty history, so never on frame 0), cadence *)
(* check, then on cadence frames synthesis, colour coherence, temporal     *)
(* blend, each stage working on the result of the one before; the frame is *)
(* appended to the history only when it is final, and what the flow,       *)
(* colour coherence and blend steps of a frame read from the history are   *)
(* frames appended for earlier frames.                                     *)
(***************************************************************************)
C23_StageOrder ==
    /\ \A j, k \in 1..Len(log) :
          j < k => \/ log[j].frame < log[k].frame
                   \/ /\ log[j].frame = log[k].frame
                      /\ StageRank(log[j].op) < StageRank(log[k].op)
    /\ \A k \in 1..Len(log) :
          LET e == log[k]
              i == e.frame
          IN  /\ e.op \in {"audio", "transform"} => Called("resolve", i)
              /\ e.op = "transform" =>
                    e.kf = IF Called("audio", i) THEN TheCall("audio", i).kf
                           ELSE TheCall("resolve", i).kf
              /\ e.op = "flow" =>
                    /\ config.use_optical_flow
                    /\ i > 0
                    /\ Called("transform", i)
                    /\ FromEarlierFrame(e.other, i, k)
              /\ e.op \in {"pipeline", "color", "blend"} =>
                    i % config.diffusion_cadence = 0
              /\ e.op = "pipeline" => e.image = WarpedOf(i)
              /\ e.op = "color" =>
                    /\ Called("pipeline", i)
                    /\ e.image = SynthOf(i)
                    /\ FromEarlierFrame(e.other, i, k)
              /\ e.op = "blend" =>
                    /\ Called("pipeline", i)
                    /\ IF Called("color", i) THEN e.image \in MatchedOf(i)
                       ELSE e.image = SynthOf(i)
                    /\ FromEarlierFrame(e.other, i, k)
              /\ e.op = "append" =>
                    /\ Called("transform", i)
                    /\ Called("flow", i) <=> (config.use_optical_flow /\ HistoryAt(i))
                    /\ e.image = FinalOf(i)

\* frame 1 has gone through every stage, modulation and flow included
C23_Witness ==
    /\ pc = "evict"
    /\ frame_idx = 1
    /\ \A op \in {"resolve", "audio", "transform", "flow", "pipeline", "color",
                   "blend", "append"} : Called(op, 1)
    /\ TheCall("flow", 1).other = Emitted(0)
    /\ Emitted(1) # WarpedOf(1)

(***************************************************************************)
(* _parse_audio_data, as generate_animation calls it before the first      *)
(* frame: SpecAudio.  The caller's dict holds one feature series of 1 to   *)
(* MaxSeries values, alone or next to a scalar entry.                      *)
(***************************************************************************)
SeriesValues == {R(0), R(1), <<1, 2>>}

FeatureSeries == UNION { [1..n -> SeriesValues] : n \in 1..MaxSeries }

InitAudio ==
    /\ \E series \in FeatureSeries, name \in {"bass", "energy"}, more \in BOOLEAN :
          audio_data = <<(<<name, "list", series>>)>>
                           \o (IF more THEN AudioTempo ELSE <<>>)
    /\ \E n \in 0..MaxFrames : config = [BaseConfig EXCEPT !.total_frames = n]
    /\ keyframes = <<>>
    /\ keyframes0 = <<>>
    /\ keyframe = [ref |-> 0, val |-> NoKeyframe]
    /\ pc = "idle"
    /\ frame_idx = 0
    /\ frames = <<>>
    /\ previous_frames = <<>>
    /\ audio_params = <<>>
    /\ warped_image = NoImage
    /\ output = NoImage
    /\ log = <<>>
    /\ SchedIdle
    /\ EnvIdle
    /\ SessionIdle

NextAudio == Start

SpecAudio == InitAudio /\ [][NextAudio]_vars

\* the series the caller gave, and what _parse_audio_data made of it
GivenSeries == audio_data[1][3]

Resampled == audio_params[1][2]

\* the value linear interpolation gives the series at position num / den of
\* its index axis (positions at or beyond the last index give the last value)
SeriesAt(num, den) ==
    LET n == Len(GivenSeries)
        i == num \div den
    IN  IF num >= (n - 1) * den THEN GivenSeries[n]
        ELSE RAdd(GivenSeries[i + 1],
                  RMul(RSub(GivenSeries[i + 2], GivenSeries[i + 1]),
                       <<num - i * den, den>>))

\* _parse_audio_data has returned: one resampled series per list-valued
\* feature, of total_frames samples
Parsed ==
    /\ pc = "loop"
    /\ Len(audio_params) = 1
    /\ audio_params[1][1] = audio_data[1][1]
    /\ Len(Resampled) = config.total_frames

(***************************************************************************)
(* C27 as stated: every list-valued feature series of native length >= 1   *)
(* is resampled to exactly total_frames samples, so that indexing at any   *)
(* frame index in [0, total_frames) is defined; the first resampled sample *)
(* is the series' first value and the last one the series' last value.     *)
(***************************************************************************)
C27_Endpoints ==
    pc = "loop" =>
        /\ Parsed
        /\ config.total_frames >= 1 =>
              /\ Resampled[1] = GivenSeries[1]
              /\ Resampled[config.total_frames] = GivenSeries[Len(GivenSeries)]

(***************************************************************************)
(* C27 as the code has it: exactly total_frames samples; sample k (from 0) *)
(* is the linear interpolation of the series at index k * len / (T - 1),   *)
(* clamped to the last value from index len - 1 on; so the first sample is *)
(* the first value, and the last sample is the last value when             *)
(* total_frames >= 2, while with total_frames = 1 the only sample is the   *)
(* series' first value.                                                    *)
(***************************************************************************)
C27_Resampled ==
    pc = "loop" =>
        /\ Parsed
        /\ config.total_frames >= 1 => Resampled[1] = GivenSeries[1]
        /\ config.total_frames >= 2 =>
              /\ Resampled[config.total_frames] = GivenSeries[Len(GivenSeries)]
              /\ \A k \in 0..(config.total_frames - 1) :
                    Resampled[k + 1] =
                        SeriesAt(k * Len(GivenSeries), config.total_frames - 1)

\* three values resampled to three frames: the middle sample falls half way
\* between the second and the third value
C27_Witness ==
    /\ Parsed
    /\ config.total_frames = 3
    /\ Len(GivenSeries) = 3
    /\ GivenSeries[2] # GivenSeries[3]
    /\ RAdd(Resampled[2], Resampled[2]) = RAdd(GivenSeries[2], GivenSeries[3])
    /\ Resampled[3] = GivenSeries[3]

(***************************************************************************)
(* generate_animation called again on the same GenerativeAnimator with the *)
(* arguments of the call before: SpecRerun.  The config object, and with   *)
(* it the keyframe objects, are the caller's and are the same in every     *)
(* call; self.previous_frames is an attribute and outlives a call; frames, *)
(* audio_params and keyframe are locals.  A pipeline failure may be gone   *)
(* by the next call.                                                       *)
(***************************************************************************)
RerunConfigs ==
    { c \in Configs : /\ c.diffusion_cadence = 1
                      /\ c.use_optical_flow
                      /\ c.color_coherence # "None"
                      /\ c.temporal_strength = <<1, 2>>
                      /\ c.animation_mode = "2D" }

InitRerun ==
    /\ config \in RerunConfigs
    /\ \E input \in RunInputs : keyframes = input[1] /\ audio_data = input[2]
    /\ keyframes0 = keyframes
    /\ pc = "idle"
    /\ frame_idx = 0
    /\ frames = <<>>
    /\ previous_frames = <<>>
    /\ audio_params = <<>>
    /\ keyframe = [ref |-> 0, val |-> NoKeyframe]
    /\ warped_image = NoImage
    /\ output = NoImage
    /\ log = <<>>
    /\ SchedIdle
    /\ progress_callback = NoCallback
    /\ pipeline_fails_at \in {-1, 1}
    /\ cancel_request = NoRequest
    /\ error = NoError
    /\ SessionIdle

\* the call has returned or raised, and the caller calls again
CallAgain ==
    /\ pc \in {"done", "raised"}
    /\ Len(runs) < MaxCalls - 1
    /\ runs' = Append(runs, [status |-> pc, frames |-> frames, error |-> error])
    /\ pc' = "idle"
    /\ frame_idx' = 0
    /\ frames' = <<>>
    /\ audio_params' = <<>>
    /\ keyframe' = [ref |-> 0, val |-> NoKeyframe]
    /\ warped_image' = NoImage
    /\ output' = NoImage
    /\ log' = <<>>
    /\ error' = NoError
    /\ pipeline_fails_at' \in {pipeline_fails_at, -1}
    /\ UNCHANGED <<config, keyframes, keyframes0, audio_data, previous_frames,
                   schedVars, engine, manager, api, progress_callback,
                   cancel_request>>

NextRerun ==
    \/ Next
    \/ CallAgain

SpecRerun == InitRerun /\ [][NextRerun]_vars

(***************************************************************************)
(* C25: nothing persists from one run to the next on the same              *)
(* GenerativeAnimator: the frame history is empty when the first frame of  *)
(* every call is begun (also after a call that aborted part-way), and a    *)
(* call given the same image, configuration, keyframes and audio data as   *)
(* an earlier completed one returns the same frame sequence.               *)
(***************************************************************************)
C25_NothingPersists ==
    /\ (pc = "loop" /\ frame_idx = 0) => previous_frames = <<>>
    /\ pc = "done" =>
          \A r \in 1..Len(runs) :
              runs[r].status = "done" => frames = runs[r].frames

\* the head of generate_frames: the locals, the check, the choice of strategy
GenerateFrames ==
    /\ engine.pc = "call"
    /\ LET total_frames == TotalFrames(engine.duration, engine.fps)
           num_images == engine.images
       IN  engine' =
             IF num_images = 0 THEN [engine EXCEPT !.pc = "raised"]
             ELSE IF num_images = 1
             THEN [engine EXCEPT !.total_frames = total_frames, !.idx = 0,
                                 !.pc = "hold"]
             ELSE [engine EXCEPT !.total_frames = total_frames,
                                 !.frames_per_transition =
                                     FramesPerTransition(total_frames, num_images),
                                 !.img_idx = 0, !.idx = 0, !.pc = "transition"]
    /\ UNCHANGED <<runVars, pc, schedVars, envVars, error, runs, manager, api>>

\* one image: for frame_idx in range(total_frames)
Hold ==
    /\ engine.pc = "hold"
    /\ engine' =
         IF engine.idx < engine.total_frames
         THEN [engine EXCEPT
                 !.frames = Append(@, <<"image", 1>>),
                 !.yielded = IF engine.idx % 10 = 0
                             THEN Append(@, <<engine.idx, engine.total_frames>>)
                             ELSE @,
                 !.idx = @ + 1]
         ELSE [engine EXCEPT !.pc = "finish"]
    /\ UNCHANGED <<runVars, pc, schedVars, envVars, error, runs, manager, api>>

\* several images: for img_idx in range(num_images - 1):
\*                     for t_idx in range(frames_per_transition)
Transition ==
    /\ engine.pc = "transition"
    /\ engine' =
         IF engine.img_idx >= engine.images - 1 THEN [engine EXCEPT !.pc = "pad"]
         ELSE IF engine.idx >= engine.frames_per_transition
         THEN [engine EXCEPT !.img_idx = @ + 1, !.idx = 0]
         ELSE LET alpha == Alpha(engine.interpolation,
                                 <<engine.idx, engine.frames_per_transition>>)
                  frame == AddWeighted(<<"image", engine.img_idx + 1>>,
                                       <<"image", engine.img_idx + 2>>, alpha)
                  n == Len(engine.frames) + 1
              IN  [engine EXCEPT
                     !.frames = Append(@, frame),
                     !.yielded = IF n % 10 = 0
                                 THEN Append(@, <<n, engine.total_frames>>)
                                 ELSE @,
                     !.idx = @ + 1]
    /\ UNCHANGED <<runVars, pc, schedVars, envVars, error, runs, manager, api>>

\* while len(self.frames) < total_frames: append(self.images[-1].copy())
Pad ==
    /\ engine.pc = "pad"
    /\ engine' =
         IF Len(engine.frames) < engine.total_frames
         THEN [engine EXCEPT !.frames = Append(@, <<"image", engine.images>>)]
         ELSE [engine EXCEPT !.pc = "finish"]
    /\ UNCHANGED <<runVars, pc, schedVars, envVars, error, runs, manager, api>>

\* yield 1.0
Finish ==
    /\ engine.pc = "finish"
    /\ engine' = [engine EXCEPT !.yielded = Append(@, <<1, 1>>), !.pc = "returned"]
    /\ UNCHANGED <<runVars, pc, schedVars, envVars, error, runs, manager, api>>

(***************************************************************************)
(* generate_frames called once on a new engine: SpecFrames.  The engine    *)
(* has loaded 0 to MaxImages images; duration is unset, or a number of     *)
(* seconds the request or the audio analysis has put there.                *)
(***************************************************************************)
Durations == {<<>>, R(0), <<1, 3>>, <<1, 2>>, R(1), <<5, 2>>, R(7), R(11), R(21)}

EngineConfigs ==
    { c \in [duration : Durations, fps : {1, 2, 24},
             interpolation : {"linear", "ease-in-out"}] :
        TotalFrames(c.duration, c.fps) <= MaxEngineFrames }

InitFrames ==
    /\ \E c \in EngineConfigs, n \in 0..MaxImages :
          engine = [NoEngine EXCEPT !.images = n, !.duration = c.duration,
                                    !.fps = c.fps,
                                    !.interpolation = c.interpolation,
                                    !.pc = "call"]
    /\ keyframes = <<>>
    /\ keyframes0 = <<>>
    /\ keyframe = [ref |-> 0, val |-> NoKeyframe]
    /\ frame_idx = 0
    /\ pc = "idle"
    /\ RunIdle
    /\ SchedIdle
    /\ runs = <<>>
    /\ manager = NoManager
    /\ api = NoApi

NextFrames ==
    \/ GenerateFrames
    \/ Hold
    \/ Transition
    \/ Pad
    \/ Finish

SpecFrames == InitFrames /\ [][NextFrames]_vars

\* int(duration * fps), duration being 10.0 when config.duration is unset or 0
Expected == TotalFrames(engine.duration, engine.fps)

\* the frames of transition t (from 1): blends of image t and image t + 1
TransitionFrames(t, per) == SubSeq(engine.frames, (t - 1) * per + 1, t * per)

(***************************************************************************)
(* C30: one call of generate_frames on a new engine leaves exactly         *)
(* total_frames = int(duration * fps) frames in self.frames for every      *)
(* number n >= 1 of loaded images (for n >= 2: n - 1 transitions of        *)
(* floor(total_frames / (n - 1)) frames each, then copies of the last      *)
(* image, also when total_frames < n - 1); every progress value yielded    *)
(* lies in [0, 1] and the last one is 1.0.                                 *)
(***************************************************************************)
C30_ExactFrameCount ==
    /\ \A k \in 1..Len(engine.yielded) :
          RLe(R(0), engine.yielded[k]) /\ RLe(engine.yielded[k], R(1))
    /\ (engine.pc = "returned" /\ engine.images >= 1) =>
          /\ Len(engine.frames) = Expected
          /\ engine.yielded[Len(engine.yielded)] = R(1)
          /\ engine.images = 1 =>
                \A k \in 1..Expected : engine.frames[k] = <<"image", 1>>
          /\ engine.images >= 2 =>
                LET per == Expected \div (engine.images - 1)
                IN  /\ \A t \in 1..(engine.images - 1) :
                          \A k \in 1..per :
                              /\ TransitionFrames(t, per)[k][1] = "addWeighted"
                              /\ TransitionFrames(t, per)[k][2] = <<"image", t>>
                              /\ TransitionFrames(t, per)[k][3] = <<"image", t + 1>>
                    /\ \A k \in ((engine.images - 1) * per + 1)..Expected :
                          engine.frames[k] = <<"image", engine.images>>

\* three images, 21 frames: two transitions of 10 frames and one padding
\* frame; progress 10/21, 20/21 and 1 was yielded
C30_Witness ==
    /\ engine.pc = "returned"
    /\ engine.images = 3
    /\ Len(engine.frames) = 21
    /\ engine.frames[10][3] = <<"image", 2>>
    /\ engine.frames[11][2] = <<"image", 2>>
    /\ engine.frames[21] = <<"image", 3>>
    /\ engine.yielded = << <<10, 21>>, <<20, 21>>, <<1, 1>> >>

\* the checkpoint download_model was asked for
Checkpoint == manager.models_db[manager.checkpoint_id]

\* download_model up to the request: the three early exits
Lookup ==
    /\ manager.pc = "call"
    /\ manager' =
         IF manager.checkpoint_id \notin DOMAIN manager.models_db
         THEN [manager EXCEPT !.pc = "raised", !.result = "ValueError: not found"]
         ELSE IF Checkpoint.is_downloaded
         THEN [manager EXCEPT !.pc = "returned", !.result = "True"]
         ELSE IF Checkpoint.download_url \in {"None", ""}
         THEN [manager EXCEPT !.pc = "raised", !.result = "ValueError: no URL"]
         ELSE [manager EXCEPT !.pc = "request"]
    /\ UNCHANGED <<runVars, pc, schedVars, envVars, error, runs, engine, api>>

\* requests.get(...); response.raise_for_status(); open(output_path, 'wb')
Request ==
    /\ manager.pc = "request"
    /\ manager' =
         IF manager.response.status >= 400
         THEN [manager EXCEPT !.pc = "raised", !.result = "HTTPError"]
         ELSE [manager EXCEPT
                 !.files = [p \in DOMAIN @ \cup {Checkpoint.path} |->
                               IF p = Checkpoint.path THEN <<>> ELSE @[p]],
                 !.next = 1, !.pc = "write"]
    /\ UNCHANGED <<runVars, pc, schedVars, envVars, error, runs, engine, api>>

\* for chunk in response.iter_content(...): if chunk: f.write(chunk)
\* (a broken connection raises out of the loop; the file is closed as it is)
WriteChunk ==
    /\ manager.pc = "write"
    /\ LET r == manager.response
           path == Checkpoint.path
       IN  manager' =
             IF manager.next = r.breaks_at
             THEN [manager EXCEPT !.pc = "raised", !.result = "ConnectionError"]
             ELSE IF manager.next > Len(r.chunks) THEN [manager EXCEPT !.pc = "verify"]
             ELSE [manager EXCEPT
                     !.files[path] = IF r.chunks[manager.next] # ""
                                     THEN Append(@, r.chunks[manager.next]) ELSE @,
                     !.next = @ + 1]
    /\ UNCHANGED <<runVars, pc, schedVars, envVars, error, runs, engine, api>>

\* if checkpoint.hash: ... output_path.unlink(); raise ValueError
Verify ==
    /\ manager.pc = "verify"
    /\ LET path == Checkpoint.path
       IN  manager' =
             IF Truthy(Checkpoint.hash)
                /\ ~HashAccepted(manager.files[path], Checkpoint.hash)
             THEN [manager EXCEPT
                     !.files = [p \in DOMAIN @ \ {path} |-> @[p]],
                     !.pc = "raised", !.result = "ValueError: hash mismatch"]
             ELSE [manager EXCEPT !.pc = "update"]
    /\ UNCHANGED <<runVars, pc, schedVars, envVars, error, runs, engine, api>>

\* checkpoint.is_downloaded = True; self.save_models_database(); return True
MarkDownloaded ==
    /\ manager.pc = "update"
    /\ LET db == [manager.models_db EXCEPT
                     ![manager.checkpoint_id].is_downloaded = TRUE]
       IN  manager' = [manager EXCEPT !.models_db = db, !.db_file = db,
                                      !.pc = "returned", !.result = "True"]
    /\ UNCHANGED <<runVars, pc, schedVars, envVars, error, runs, engine, api>>

(***************************************************************************)
(* download_model called once: SpecDownload.  The database holds one       *)
(* checkpoint, "m", or none; the call asks for "m" or for an id that is    *)
(* not there.  The server delivers up to MaxChunks chunks.                 *)
(***************************************************************************)
Contents == UNION { [1..n -> {"a", "b", ""}] : n \in 0..MaxChunks }

Responses ==
    { [status |-> s, chunks |-> c, breaks_at |-> b] :
        s \in {200, 404}, c \in Contents, b \in 0..(MaxChunks + 1) }

\* the hash on record: none, the empty string, the digest of what the server
\* holds in lower or upper case, the digest of something else
Hashes(chunks) ==
    { NoHash, EmptyHash, Hexdigest(NonEmpty(chunks)),
      [Hexdigest(NonEmpty(chunks)) EXCEPT !.letters = "upper"],
      Hexdigest(<<"z">>) }

InitDownload ==
    /\ \E r \in Responses : \E h \in Hashes(r.chunks), url \in {"None", "url"},
          done \in BOOLEAN, known \in BOOLEAN, id \in {"m", "x"},
          old \in BOOLEAN :
          LET checkpoint == [download_url |-> url, hash |-> h,
                             is_downloaded |-> done, path |-> "m.safetensors"]
              db == IF known THEN [k \in {"m"} |-> checkpoint] ELSE <<>>
          IN  /\ r.breaks_at <= Len(r.chunks) + 1
              /\ done => (known /\ old)
              /\ manager =
                   [NoManager EXCEPT
                      !.models_db = db, !.models_db0 = db, !.db_file = db,
                      !.files = IF old THEN [p \in {"m.safetensors"} |-> <<"old">>]
                                ELSE <<>>,
                      !.response = r, !.checkpoint_id = id, !.pc = "call"]
    /\ engine = NoEngine
    /\ api = NoApi
    /\ keyframes = <<>>
    /\ keyframes0 = <<>>
    /\ keyframe = [ref |-> 0, val |-> NoKeyframe]
    /\ frame_idx = 0
    /\ pc = "idle"
    /\ RunIdle
    /\ SchedIdle
    /\ runs = <<>>

NextDownload ==
    \/ Lookup
    \/ Request
    \/ WriteChunk
    \/ Verify
    \/ MarkDownloaded

SpecDownload == InitDownload /\ [][NextDownload]_vars

(***************************************************************************)
(* C29: download_model sets a checkpoint's is_downloaded flag only after   *)
(* every chunk of the response was written to the file and, when the       *)
(* checkpoint records a hash, the SHA-256 of the file equals it; on a hash *)
(* mismatch the file is deleted, the call raises and the flag stays False; *)
(* on every other failure (unknown id, missing URL, HTTP error, broken     *)
(* connection) the flag and the models database, in memory and on disk,    *)
(* are as they were.                                                       *)
(***************************************************************************)
FlagSet ==
    /\ manager.checkpoint_id \in DOMAIN manager.models_db
    /\ Checkpoint.is_downloaded
    /\ ~manager.models_db0[manager.checkpoint_id].is_downloaded

C29_FlagOnlyAfterVerifiedFile ==
    /\ FlagSet =>
         /\ Checkpoint.path \in DOMAIN manager.files
         /\ manager.files[Checkpoint.path] = NonEmpty(manager.response.chunks)
         /\ manager.response.breaks_at = 0
         /\ Truthy(Checkpoint.hash) =>
              Hexdigest(manager.files[Checkpoint.path]) = Lower(Checkpoint.hash)
         /\ manager.db_file = manager.models_db
         /\ manager.result = "True"
    /\ manager.result = "ValueError: hash mismatch" =>
         /\ manager.pc = "raised"
         /\ Checkpoint.path \notin DOMAIN manager.files
         /\ ~Checkpoint.is_downloaded
    /\ manager.pc = "raised" =>
         /\ manager.models_db = manager.models_db0
         /\ manager.db_file = manager.models_db0

\* a download of two chunks and an empty one, checked against a hash that is
\* recorded in upper case, has set the flag
C29_Witness ==
    /\ FlagSet
    /\ manager.pc = "returned"
    /\ Checkpoint.hash.letters = "upper"
    /\ Len(manager.response.chunks) = MaxChunks
    /\ Len(manager.files[Checkpoint.path]) = MaxChunks - 1

(***************************************************************************)
(* process_animation and the request handlers.  The background task and    *)
(* the handlers are coroutines of one event loop: a handler runs only      *)
(* while the task is not running, which is before it starts, after it      *)
(* ends, and while it waits in the send_json of notify_project_update;     *)
(* without a registered WebSocket notify_project_update does not wait.     *)
(***************************************************************************)
Present(a) == "p" \in DOMAIN a.projects

\* await notify_project_update(project_id)
Notified(a) == [a EXCEPT !.task.suspended = "p" \in a.active_connections]

\* the task goes on without having waited
Straight(a) == [a EXCEPT !.task.suspended = FALSE]

\* except Exception as e: projects[project_id].status = "failed" ...
OnException(a, e) ==
    IF Present(a)
    THEN Straight([a EXCEPT !.projects["p"].status = "failed",
                            !.projects["p"].message = e,
                            !.task.pc = "returned"])
    ELSE Straight([a EXCEPT !.task.pc = "crashed"])

\* a piece of the try block: the engine step it calls may raise, and its
\* first projects[project_id] raises KeyError when the project is gone
Try(raises, then) ==
    IF raises THEN OnException(api, "Error")
    ELSE IF ~Present(api) THEN OnException(api, "KeyError")
    ELSE then

ApiUnchanged == UNCHANGED <<runVars, pc, schedVars, envVars, error, runs, engine, manager>>

\* status = "processing"; progress = 0.0; notify
TaskStart ==
    /\ api.task.pc = "start"
    /\ api' = Try(FALSE,
                  Notified([api EXCEPT
                     !.projects["p"] = ProjectStatus("processing", R(0), "Initializing..."),
                     !.task.started = TRUE, !.task.pc = "init"]))
    /\ ApiUnchanged

\* message = "Loading images..."; progress = 5.0; notify
TaskInit ==
    /\ api.task.pc = "init"
    /\ api' = Try(FALSE,
                  Notified([api EXCEPT !.projects["p"].message = "Loading images...",
                                       !.projects["p"].progress = R(5),
                                       !.task.pc = "load"]))
    /\ ApiUnchanged

\* await engine.load_images(); progress = 10.0; notify
TaskLoad ==
    /\ api.task.pc = "load"
    /\ api' = Try(api.images <= 0 \/ api.fails_at = "load",
                  Notified([api EXCEPT !.projects["p"].progress = R(10),
                                       !.task.pc = "audio"]))
    /\ ApiUnchanged

\* if audio_file and ...: progress = 15.0; notify   else: progress = 20.0
TaskAudio ==
    /\ api.task.pc = "audio"
    /\ api' = Try(FALSE,
                  IF api.audio
                  THEN Notified([api EXCEPT
                                   !.projects["p"].message = "Analyzing audio...",
                                   !.projects["p"].progress = R(15),
                                   !.task.pc = "analyze"])
                  ELSE Straight([api EXCEPT !.projects["p"].progress = R(20),
                                            !.task.pc = "generate"]))
    /\ ApiUnchanged

\* await engine.analyze_audio(); progress = 20.0; notify
TaskAnalyze ==
    /\ api.task.pc = "analyze"
    /\ api' = Try(api.fails_at = "audio",
                  Notified([api EXCEPT !.projects["p"].progress = R(20),
                                       !.task.pc = "generate"]))
    /\ ApiUnchanged

\* message = "Generating frames..."; async for ... in engine.generate_frames()
TaskGenerate ==
    /\ api.task.pc = "generate"
    /\ api' = Try(FALSE,
                  Straight([api EXCEPT
                     !.projects["p"].message = "Generating frames...",
                     !.task.yields = GenerateYields(TotalFrames(api.duration, api.fps),
                                                    api.images),
                     !.task.pc = "frames"]))
    /\ ApiUnchanged

\* progress = 20.0 + (progress * 0.5); notify   and after the loop 70.0; notify
TaskFrames ==
    /\ api.task.pc = "frames"
    /\ api' = Try(api.fails_at = "frames",
                  IF api.task.yields # <<>>
                  THEN Notified([api EXCEPT
                         !.projects["p"].progress =
                             RAdd(R(20), RMul(Head(api.task.yields), <<1, 2>>)),
                         !.task.yields = Tail(@)])
                  ELSE Notified([api EXCEPT !.projects["p"].progress = R(70),
                                            !.task.pc = "apply"]))
    /\ ApiUnchanged

\* message = "Applying effects..."; async for ... in engine.apply_effects()
TaskApply ==
    /\ api.task.pc = "apply"
    /\ api' = Try(FALSE,
                  Straight([api EXCEPT
                     !.projects["p"].message = "Applying effects...",
                     !.task.yields = EffectYields(TotalFrames(api.duration, api.fps)),
                     !.task.pc = "effects"]))
    /\ ApiUnchanged

\* progress = 70.0 + (progress * 0.15); notify   and after the loop 85.0; notify
TaskEffects ==
    /\ api.task.pc = "effects"
    /\ api' = Try(api.fails_at = "effects",
                  IF api.task.yields # <<>>
                  THEN Notified([api EXCEPT
                         !.projects["p"].progress =
                             RAdd(R(70), RMul(Head(api.task.yields), <<3, 20>>)),
                         !.task.yields = Tail(@)])
                  ELSE Notified([api EXCEPT !.projects["p"].progress = R(85),
                                            !.task.pc = "render"]))
    /\ ApiUnchanged

\* message = "Rendering video..."; async for ... in engine.render_video(...)
TaskRender ==
    /\ api.task.pc = "render"
    /\ api' = Try(FALSE,
                  Straight([api EXCEPT
                     !.projects["p"].message = "Rendering video...",
                     !.task.yields = RenderYields(TotalFrames(api.duration, api.fps)),
                     !.task.pc = "video"]))
    /\ ApiUnchanged

\* progress = 85.0 + (progress * 0.15); notify   and after the loop
\* status = "completed"; progress = 100.0; notify
TaskVideo ==
    /\ api.task.pc = "video"
    /\ api' = Try(api.fails_at = "render",
                  IF api.task.yields # <<>>
                  THEN Notified([api EXCEPT
                         !.projects["p"].progress =
                             RAdd(R(85), RMul(Head(api.task.yields), <<3, 20>>)),
                         !.task.yields = Tail(@)])
                  ELSE Straight([api EXCEPT
                         !.projects["p"] =
                             ProjectStatus("completed", R(100),
                                           "Video generated successfully"),
                         !.task.pc = "returned"]))
    /\ ApiUnchanged

\* the event loop can run a request handler
CanRun == api.task.suspended \/ api.task.pc \in {"start", "returned", "crashed"}

\* GET /api/projects/{project_id}/status
GetProjectStatus ==
    /\ CanRun
    /\ api' = [api EXCEPT !.response = IF Present(api) THEN "200" ELSE "404"]
    /\ ApiUnchanged

\* POST .../upload/images with one image, up to `await file.read()`
UploadImages ==
    /\ CanRun
    /\ api.upload = "idle"
    /\ api' = IF ~Present(api) THEN [api EXCEPT !.response = "404"]
              ELSE IF api.images < 0 THEN [api EXCEPT !.response = "500"]
              ELSE [api EXCEPT !.upload = "reading",
                               !.images = IF @ = 0 THEN 1 ELSE @]
    /\ ApiUnchanged

\* upload_images from f.write(content) on
UploadWritten ==
    /\ CanRun
    /\ api.upload = "reading"
    /\ api' = IF Present(api)
              THEN [api EXCEPT !.projects["p"].message = "Uploaded 1 images",
                               !.upload = "idle", !.response = "200"]
              ELSE [api EXCEPT !.upload = "idle", !.response = "500"]
    /\ ApiUnchanged

\* DELETE /api/projects/{project_id}
DeleteProject ==
    /\ CanRun
    /\ api' = IF ~Present(api) THEN [api EXCEPT !.response = "404"]
              ELSE [api EXCEPT !.images = -1, !.audio = FALSE,
                               !.projects = <<>>, !.response = "200"]
    /\ ApiUnchanged

\* /ws/{project_id}: accept, active_connections[project_id] = websocket
WebSocketConnect ==
    /\ CanRun
    /\ "p" \notin api.active_connections
    /\ api' = [api EXCEPT !.active_connections = @ \cup {"p"}]
    /\ ApiUnchanged

\* except WebSocketDisconnect: del active_connections[project_id]
WebSocketDisconnect ==
    /\ CanRun
    /\ "p" \in api.active_connections
    /\ api' = [api EXCEPT !.active_connections = @ \ {"p"}]
    /\ ApiUnchanged

(***************************************************************************)
(* One generate request: SpecApi.  generate_animation has set the project  *)
(* to "queued" and scheduled process_animation; the project directory      *)
(* holds some files, 0 to MaxApiImages of them images load_images accepts. *)
(***************************************************************************)
InitApi ==
    /\ \E images \in 0..MaxApiImages, audio \in BOOLEAN, duration \in 1..MaxDuration,
          fails_at \in {"none", "load", "audio", "frames", "effects", "render"},
          connected \in SUBSET {"p"} :
          api = [NoApi EXCEPT
                   !.projects = [id \in {"p"} |->
                       ProjectStatus("queued", R(0), "Animation queued for processing")],
                   !.active_connections = connected,
                   !.images = images, !.audio = audio,
                   !.duration = R(duration), !.fps = 24, !.fails_at = fails_at,
                   !.task.pc = "start"]
    /\ engine = NoEngine
    /\ manager = NoManager
    /\ keyframes = <<>>
    /\ keyframes0 = <<>>
    /\ keyframe = [ref |-> 0, val |-> NoKeyframe]
    /\ frame_idx = 0
    /\ pc = "idle"
    /\ RunIdle
    /\ SchedIdle
    /\ runs = <<>>

NextApi ==
    \/ TaskStart
    \/ TaskInit
    \/ TaskLoad
    \/ TaskAudio
    \/ TaskAnalyze
    \/ TaskGenerate
    \/ TaskFrames
    \/ TaskApply
    \/ TaskEffects
    \/ TaskRender
    \/ TaskVideo
    \/ GetProjectStatus
    \/ UploadImages
    \/ UploadWritten
    \/ DeleteProject
    \/ WebSocketConnect
    \/ WebSocketDisconnect

SpecApi == InitApi /\ [][NextApi]_vars

(***************************************************************************)
(* C28: once process_animation has found its project and set it to         *)
(* "processing", under every interleaving with status queries, uploads,    *)
(* WebSocket connections and delete_project the task ends without an       *)
(* exception leaving it; the project, if it is still there when the task   *)
(* has ended, is "completed" or "failed"; and its progress never exceeds   *)
(* 100 and never decreases from one step to the next while it is           *)
(* "processing".                                                           *)
(***************************************************************************)
TaskEnded == api.task.pc \in {"returned", "crashed"}

Unhandled == api.task.started /\ api.task.pc = "crashed"

ProgressKept ==
    (/\ Present(api) /\ Present(api')
     /\ api.projects["p"].status = "processing"
     /\ api'.projects["p"].status = "processing")
    => RLe(api.projects["p"].progress, api'.projects["p"].progress)

C28_TaskEndsCleanly ==
    /\ [](~Unhandled)
    /\ []((TaskEnded /\ Present(api)) =>
             api.projects["p"].status \in {"completed", "failed"})
    /\ [](Present(api) => RLe(api.projects["p"].progress, R(100)))
    /\ [][ProgressKept]_vars

=============================================================================
